---------------------------- MODULE Spec2Model ----------------------------
(***************************************************************************)
(* Model of the listing workflow of TheBridge/EtsyFunc.py (EtsyFunc.        *)
(* create_product and its helpers) on top of the session manager of         *)
(* TheYard/browser.py.                                                      *)
(*                                                                          *)
(* One create_product run is a sequential process; pc is its position in    *)
(* the code.  Every Playwright call on a locator, the keyboard or the page  *)
(* script engine either returns or raises: the model chooses the outcome    *)
(* with \E, and follows the try/except of the code from there.  Opening     *)
(* the page (new_page, goto) and page.screenshot are taken to return.       *)
(*                                                                          *)
(* History variables (they record what the run did, the code does not hold  *)
(* them):                                                                   *)
(*   trace  the step events of the run, in order: begin, ok, fail, skip     *)
(*   paths  the outcome of each path (strategy group) of the current step   *)
(*   log    the UI calls of the latest path of the latest step              *)
(*   shots  every page.screenshot path written, in order                    *)
(*   calls  the calls made from outside create_product, with their results  *)
(*   job    where each thread is inside create_product / manual login       *)
(*   others the managers of the EtsyFunc objects built before the latest    *)
(*                                                                          *)
(* Specifications:                                                          *)
(*   Spec         one create_product run                                    *)
(*   LookupSpec   calls of _when_made_index on buckets, labels, other values*)
(*   DismissSpec  successive calls of _dismiss_overlays on any page state   *)
(*   MgrSpec      threads calling launch_persistent_context and             *)
(*                close_context on one BrowserManager; creating a browser   *)
(*                context is taken to return                                *)
(*   FairSpec     Spec where the run is always scheduled (WF on Next)       *)
(*   RunsSpec     threads running create_product on EtsyFunc objects, each  *)
(*                object with its own BrowserManager; the manager calls     *)
(*                are taken step by step, the page steps of a run as one    *)
(*                action that returns or raises                             *)
(*   LoginSpec    MgrSpec with ensure_manual_login; new_page on an open     *)
(*                context is taken to return, input() to return at last     *)
(*   CloseAllSpec MgrSpec with close_all, every enabled step taken at last  *)
(*   FaultSpec    MgrSpec where the start of the driver or the creation     *)
(*                of the context can raise                                  *)
(*   RegistrySpec MgrSpec on several EtsyFunc objects, constructed and      *)
(*                used in turn, that share profiles/shops.json              *)
(*                                                                          *)
(* The shop registry (_shops of each manager, the file shops.json) starts   *)
(* empty; int(time.time()) is any value of Times.                           *)
(***************************************************************************)
EXTENDS Integers, Sequences, FiniteSets, TLC

\* ------------------------------------------------------------------ bounds

\* most dialogs left visible on the page when the about modal closes
MaxDialogs == 1
\* threads that call one BrowserManager at the same time
MaxThreads == 2
\* calls of _when_made_index made in a row
MaxLookups == 2
\* calls of _dismiss_overlays made in succession on one page
MaxDismissCalls == 2
\* calls of BrowserManager methods made by the threads, in all
MaxMgrCalls == 3
\* number of fields in which an input product differs from the example product
MaxChanged == 1
\* create_product calls made in one process, in all
MaxRuns == 2
\* EtsyFunc objects constructed in one process
MaxObjects == 2

\* ------------------------------------------------------- program constants

\* _dismiss_overlays: for _ in range(4)
DismissRounds == 4
\* create_product: for _ in range(8) around the Continue click
ContinueAttempts == 8
\* _pick_from_open_listbox: for _ in range(10)
ListboxAttempts == 10
\* _scroll_to_bottom: y += 600
ScrollStep == 600

\* Python's None
None == "<None>"
\* BrowserManager._play is None
NoDriver == 0
\* threading.Lock() not held
NoThread == 0

\* Python truthiness of an Optional[str]: None and "" are falsy
Truthy(v) == v # None /\ v # ""

\* ---------------------------------------------------------- ProductInput

\* an image path is a sequence of characters, so that strip() is computed
APath == <<"a", ".", "j", "p", "g">>
QuotedPath == <<" ", "'", "a", ".", "j", "p", "g", "'">>
BlankPath == <<" ">>

ImagesChoices == {<<>>, <<APath>>, <<BlankPath>>, <<QuotedPath, APath>>}

TitleChoices == {None, "Ceramic Plate"}
DescriptionChoices == {None, "desc"}
WhoMadeChoices == {None, "i_did", "someone_else", "collective", "gift"}
WhenMadeChoices == {None, "made_to_order", "2020_2025", "2010 - 2019", "1900s", "vintage"}
IsSupplyChoices == {None, "True", "False"}

\* every record the choices above allow
AllProducts ==
    [category_query : {"plate"},
     title : TitleChoices,
     description : DescriptionChoices,
     who_made : WhoMadeChoices,
     when_made : WhenMadeChoices,
     is_supply : IsSupplyChoices,
     images : ImagesChoices]

\* the product of the end-to-end example
ExampleProduct ==
    [category_query |-> "plate", title |-> "Ceramic Plate", description |-> "desc",
     who_made |-> "i_did", when_made |-> "2020_2025", is_supply |-> "False",
     images |-> <<APath>>]

Fields == {"category_query", "title", "description", "who_made", "when_made", "is_supply", "images"}

\* the input products of the model: the example, changed in up to MaxChanged fields
ProductInput ==
    {p \in AllProducts : Cardinality({f \in Fields : p[f] # ExampleProduct[f]}) <= MaxChanged}

ShopKeys == {"Puraylen"}

Threads == 1..MaxThreads
\* the keys the threads call the manager with
MgrKeys == ShopKeys \cup {"Nordwood"}
\* the values int(time.time()) takes; the clock of the machine may stand or be set back
Times == {1, 2}
\* a thread outside every BrowserManager method; inside one: the method (op), the
\* position in it (at), its shop_key, its local `context`, its record in calls
Idle == [op |-> "idle", at |-> "idle", key |-> None, ctx |-> 0, call |-> 0]
\* a thread outside create_product and ensure_manual_login; inside one: the
\* method (fn), the position in it (at), its locals `ctx` and `page`, its record
\* in calls
NoJob == [fn |-> "idle", at |-> "idle", ctx |-> 0, page |-> "none", call |-> 0]

\* ------------------------------------------------------------- pure helpers

Whitespace == {" "}
Quotes == {"'", "\""}

RECURSIVE LStrip(_, _)
LStrip(s, chars) ==
    IF s # <<>> /\ Head(s) \in chars THEN LStrip(Tail(s), chars) ELSE s

RECURSIVE RStrip(_, _)
RStrip(s, chars) ==
    IF s # <<>> /\ s[Len(s)] \in chars THEN RStrip(SubSeq(s, 1, Len(s) - 1), chars) ELSE s

\* str.strip(chars)
Strip(s, chars) == RStrip(LStrip(s, chars), chars)

\* [p.strip().strip("'\"") for p in product.images if p and p.strip()]
RECURSIVE img_paths(_)
img_paths(images) ==
    IF images = <<>> THEN <<>>
    ELSE LET p == Head(images)
         IN IF p # <<>> /\ Strip(p, Whitespace) # <<>>
            THEN <<Strip(Strip(p, Whitespace), Quotes)>> \o img_paths(Tail(images))
            ELSE img_paths(Tail(images))

\* WhenMadeMapping with the label of 2020_2025 written without spaces
WhenMadeMappingNoSpaces ==
    [k \in {"made_to_order", "2020_2025", "before_2006", "1990s", "1980s", "1970s",
            "1960s", "1950s", "1940s", "1930s", "1920s", "1910s", "1900s"} |->
        CASE k = "made_to_order" -> "Made To Order"
          [] k = "2020_2025" -> "2020-2025"
          [] k = "before_2006" -> "Before 2006"
          [] OTHER -> k]

\* _map_when_made_to_ui: mapping.get(when_made, when_made)
WhenMadeMapping ==
    [k \in {"made_to_order", "2020_2025", "before_2006", "1990s", "1980s", "1970s",
            "1960s", "1950s", "1940s", "1930s", "1920s", "1910s", "1900s"} |->
        CASE k = "made_to_order" -> "Made To Order"
          [] k = "2020_2025" -> "2020 - 2025"
          [] k = "before_2006" -> "Before 2006"
          [] OTHER -> k]

map_when_made_to_ui(when_made) ==
    IF when_made \in DOMAIN WhenMadeMapping THEN WhenMadeMapping[when_made] ELSE when_made

\* the list `order` of _when_made_index
WhenMadeOrder ==
    <<"Made To Order", "2020 - 2025", "2010 - 2019", "2006 - 2009", "Before 2006",
      "2000 - 2005", "1990s", "1980s", "1970s", "1960s", "1950s", "1940s", "1930s",
      "1920s", "1910s", "1900s">>

\* list.index: the 0-based position of the first occurrence
ListIndex(seq, x) == (CHOOSE n \in 1..Len(seq) : seq[n] = x /\ \A m \in 1..(n - 1) : seq[m] # x) - 1

\* _when_made_index returning the 1-based position
when_made_index_from_one(when_made) ==
    LET target == map_when_made_to_ui(when_made)
    IN IF \E n \in 1..Len(WhenMadeOrder) : WhenMadeOrder[n] = target
       THEN ListIndex(WhenMadeOrder, target) + 1
       ELSE 0

\* _when_made_index answering the last position on ValueError
when_made_index_unknown_is_last(when_made) ==
    LET target == map_when_made_to_ui(when_made)
    IN IF \E n \in 1..Len(WhenMadeOrder) : WhenMadeOrder[n] = target
       THEN ListIndex(WhenMadeOrder, target)
       ELSE Len(WhenMadeOrder) - 1

\* _when_made_index: order.index(target), 0 on ValueError
when_made_index(when_made) ==
    LET target == map_when_made_to_ui(when_made)
    IN IF \E n \in 1..Len(WhenMadeOrder) : WhenMadeOrder[n] = target
       THEN ListIndex(WhenMadeOrder, target)
       ELSE 0

\* who_made_map.get(product.who_made)
who_made_label(who_made) ==
    CASE who_made = "i_did" -> "I did"
      [] who_made = "someone_else" -> "Another company or person"
      [] who_made = "collective" -> "A member of my shop"
      [] OTHER -> None

\* "A supply or tool to make things" if product.is_supply else "A finished product"
what_is_it_label(is_supply) ==
    IF is_supply = "True" THEN "A supply or tool to make things" ELSE "A finished product"

\* ShotPath with the tag left out of the file name
ShotPathWithoutTag(key, tag) == "etsy_" \o key \o "_error.png"

\* f"etsy_{self.shop_key}_{tag}.png"
ShotPath(key, tag) == "etsy_" \o key \o "_" \o tag \o ".png"

\* the exception a raise statement builds: its payload is args, the message
RuntimeError(msg) == [type |-> "RuntimeError", args |-> <<msg>>]
\* the exception of a failed Playwright call on locator loc, as a bare raise
\* re-raises it: Playwright's message names the call and the locator
PlaywrightError(call, loc) == [type |-> "playwright.Error", args |-> <<call \o ": " \o loc>>]
NoError == [type |-> None, args |-> <<>>]


\* --------------------------------------------------------------- the page

\* document.documentElement / document.body: inline style and class list
LockClasses == {"no-scroll", "wt-no-scroll", "overlay-lock", "wt-overlay-open"}
Unlocked == [overflow |-> "auto", position |-> "", classes |-> {}]
Locked == [overflow |-> "hidden", position |-> "fixed", classes |-> {"wt-overlay-open", "wt-body"}]

NormalScroll == [html |-> Unlocked, body |-> Unlocked, y |-> 0]
\* the scroll lock of the about modal: style and lock class on body
ModalLock == [overflow |-> "hidden", position |-> "fixed", classes |-> {"wt-overlay-open"}]
\* what a closing modal may leave behind
Residues ==
    {NormalScroll,
     [html |-> Unlocked, body |-> ModalLock, y |-> ScrollStep]}

\* the script of _restore_scroll applied to one element
RestoredElement(el) ==
    [overflow |-> "auto", position |-> "", classes |-> el.classes \ LockClasses]

\* RestoredScroll with the overflow styles reset but the class lists left alone
RestoredScrollKeepsClasses(s) ==
    [html |-> [s.html EXCEPT !.overflow = "auto", !.position = ""],
     body |-> [s.body EXCEPT !.overflow = "auto", !.position = ""],
     y |-> 0]

\* the script of _restore_scroll: both elements, then window.scrollTo(0, 0)
RestoredScroll(s) ==
    [html |-> RestoredElement(s.html), body |-> RestoredElement(s.body), y |-> 0]

\* ------------------------------------------------------------------ state

VARIABLES
    product,    \* the ProductInput of the run
    shop_key,   \* EtsyFunc.shop_key
    pc,         \* position of the run in create_product
    path,       \* the path (strategy group) of the step pc that is running
    i,          \* loop counter of the running path (1-based)
    j,          \* inner loop counter: the candidate inside a listbox attempt
    error,      \* the exception create_product ended with, NoError otherwise
    dialogs,    \* number of visible div[role='dialog'] elements of the page
    scroll,     \* scroll/overflow state of the page
    browsers,   \* BrowserManager._browsers: shop_key -> [play, ctx]
    play,       \* BrowserManager._play: the running driver, or NoDriver
    ndrivers,   \* drivers started so far (names the next one)
    nctx,       \* browser contexts created so far (names the next one)
    closed,     \* contexts closed so far
    trace,
    paths,
    log,
    shots,
    calls,      \* calls made on the objects from outside create_product, with their results
    lock,       \* BrowserManager._lock: the thread that holds it, or NoThread
    thr,        \* per thread: the BrowserManager method it is in and its position there
    job,        \* per thread: the create_product or ensure_manual_login call it is in
    others,     \* the BrowserManagers of the EtsyFunc objects constructed earlier
    shops,      \* BrowserManager._shops: shop_key -> [profile, created]
    cfg         \* the content of profiles/shops.json

ctl == <<pc, path, i, j, error>>
pageVars == <<dialogs, scroll>>
mgrVars == <<browsers, play, ndrivers, nctx, closed>>
hist == <<trace, paths, log, shots>>
process == <<job, others>>
registry == <<shops, cfg>>
outer == <<calls, lock, thr, job, others>>
vars == <<product, shop_key, pc, path, i, j, error, dialogs, scroll,
          browsers, play, ndrivers, nctx, closed, trace, paths, log, shots,
          calls, lock, thr, job, others, shops, cfg>>

\* ------------------------------------------------------ the step sequence

\* Program with the photo upload moved before the title
ProgramPhotosFirst ==
    <<"Open", "CategorySearch", "CategorySelectFirstSuggestion", "ConfirmCategory",
      "AboutModal", "AboutWhoMade", "AboutWhatIsIt", "AboutWhenMade", "AboutContinue",
      "DismissOverlays", "RestoreScroll", "PhotoUpload", "TitleFill", "DescriptionFill",
      "ScrollToBottom", "CloseContext", "Done">>

\* Program with the overlay dismissal left out of _fill_about_modal
ProgramWithoutDismiss ==
    <<"Open", "CategorySearch", "CategorySelectFirstSuggestion", "ConfirmCategory",
      "AboutModal", "AboutWhoMade", "AboutWhatIsIt", "AboutWhenMade", "AboutContinue",
      "RestoreScroll", "TitleFill", "PhotoUpload", "DescriptionFill",
      "ScrollToBottom", "CloseContext", "Done">>

\* create_product top to bottom: the positions of the run
Program ==
    <<"Open", "CategorySearch", "CategorySelectFirstSuggestion", "ConfirmCategory",
      "AboutModal", "AboutWhoMade", "AboutWhatIsIt", "AboutWhenMade", "AboutContinue",
      "DismissOverlays", "RestoreScroll", "TitleFill", "PhotoUpload", "DescriptionFill",
      "ScrollToBottom", "CloseContext", "Done">>

PosOf(step) == CHOOSE n \in 1..Len(Program) : Program[n] = step

\* Runs with the photo block entered only for more than one image
RunsPhotosOnlyForSeveral(step, p) ==
    CASE step = "AboutWhoMade" -> Truthy(p.who_made) /\ who_made_label(p.who_made) # None
      [] step = "AboutWhenMade" -> Truthy(p.when_made)
      [] step = "TitleFill" -> Truthy(p.title)
      [] step = "PhotoUpload" -> Len(p.images) > 1
      [] step = "DescriptionFill" -> Truthy(p.description)
      [] OTHER -> TRUE

\* Runs with the when-made block entered whatever the input holds
RunsWhenMadeAlways(step, p) ==
    CASE step = "AboutWhoMade" -> Truthy(p.who_made) /\ who_made_label(p.who_made) # None
      [] step = "AboutWhenMade" -> TRUE
      [] step = "TitleFill" -> Truthy(p.title)
      [] step = "PhotoUpload" -> p.images # <<>>
      [] step = "DescriptionFill" -> Truthy(p.description)
      [] OTHER -> TRUE

\* Runs with the photo block entered whatever the input holds
RunsPhotosAlways(step, p) ==
    CASE step = "AboutWhoMade" -> Truthy(p.who_made) /\ who_made_label(p.who_made) # None
      [] step = "AboutWhenMade" -> Truthy(p.when_made)
      [] step = "TitleFill" -> Truthy(p.title)
      [] step = "PhotoUpload" -> TRUE
      [] step = "DescriptionFill" -> Truthy(p.description)
      [] OTHER -> TRUE

\* Runs with the title block entered whatever the input holds
RunsTitleAlways(step, p) ==
    CASE step = "AboutWhoMade" -> Truthy(p.who_made) /\ who_made_label(p.who_made) # None
      [] step = "AboutWhenMade" -> Truthy(p.when_made)
      [] step = "TitleFill" -> TRUE
      [] step = "PhotoUpload" -> p.images # <<>>
      [] step = "DescriptionFill" -> Truthy(p.description)
      [] OTHER -> TRUE

\* Runs with the what-is-it block under `if product.is_supply is not None`
RunsWhatIsItWhenGiven(step, p) ==
    CASE step = "AboutWhoMade" -> Truthy(p.who_made) /\ who_made_label(p.who_made) # None
      [] step = "AboutWhatIsIt" -> p.is_supply # None
      [] step = "AboutWhenMade" -> Truthy(p.when_made)
      [] step = "TitleFill" -> Truthy(p.title)
      [] step = "PhotoUpload" -> p.images # <<>>
      [] step = "DescriptionFill" -> Truthy(p.description)
      [] OTHER -> TRUE

\* Runs with the who-made selection made for every value that is given, without
\* the test of the label
RunsWhoMadeWhenGiven(step, p) ==
    CASE step = "AboutWhoMade" -> Truthy(p.who_made)
      [] step = "AboutWhenMade" -> Truthy(p.when_made)
      [] step = "TitleFill" -> Truthy(p.title)
      [] step = "PhotoUpload" -> p.images # <<>>
      [] step = "DescriptionFill" -> Truthy(p.description)
      [] OTHER -> TRUE

\* the condition under which the code enters the block of a step
Runs(step, p) ==
    CASE step = "AboutWhoMade" -> Truthy(p.who_made) /\ who_made_label(p.who_made) # None
      [] step = "AboutWhenMade" -> Truthy(p.when_made)
      [] step = "TitleFill" -> Truthy(p.title)
      [] step = "PhotoUpload" -> p.images # <<>>
      [] step = "DescriptionFill" -> Truthy(p.description)
      [] OTHER -> TRUE

\* the first path of a step
FirstPath(step) ==
    CASE step = "CategorySelectFirstSuggestion" -> "keyboard"
      [] step = "ConfirmCategory" -> "loop"
      [] step = "AboutWhenMade" -> "open"
      [] step = "PhotoUpload" -> "anchor"
      [] step = "DismissOverlays" -> "dialogs"
      [] OTHER -> "strategies"

\* the position of the next step whose block the code enters
NextPos(k, p) ==
    CHOOSE n \in (k + 1)..Len(Program) :
        Runs(Program[n], p) /\ \A m \in (k + 1)..(n - 1) : ~Runs(Program[m], p)

Ev(step, what) == <<step, what>>

\* the events of leaving step Program[k] with success: ok, the skips, the next begin
AdvanceEvents(k, p) ==
    <<Ev(Program[k], "ok")>>
    \o [m \in 1..(NextPos(k, p) - k - 1) |-> Ev(Program[k + m], "skip")]
    \o <<Ev(Program[NextPos(k, p)], "begin")>>

\* ------------------------------------------------------- history records

\* one UI call: which candidate (strat) of which path; in the listbox path, of
\* which attempt (i) and candidate (j) of try_once
Call(strat, loc, act, arg, res) ==
    [step |-> pc, path |-> path, iter |-> IF path = "listbox" THEN <<i, j>> ELSE <<1, 1>>,
     strat |-> strat, loc |-> loc, act |-> act, arg |-> arg, res |-> res]

\* one call of _dismiss_overlays is one unit: its dialog loop and its restore
SameUnit(a, b) ==
    /\ a.step = b.step
    /\ a.iter = b.iter
    /\ a.path = b.path \/ a.step = "DismissOverlays"

\* log keeps the calls of the latest path (in the listbox path: of the latest
\* candidate of the latest attempt)
Logged(made) ==
    (IF log # <<>> /\ ~SameUnit(log[1], made[1]) THEN <<>> ELSE log) \o made

\* paths keeps the path outcomes of the latest step
PathDone(ok) ==
    Append(IF paths # <<>> /\ paths[1].step # pc THEN <<>> ELSE paths,
           [step |-> pc, path |-> path, ok |-> ok])

\* ---------------------------------------------------------- control flow

\* stay in the running path
Continue(ni, nj) ==
    /\ i' = ni
    /\ j' = nj
    /\ UNCHANGED <<pc, path, error, trace, paths, shots>>

\* the running path failed without ending the step: go on with another path
SwitchPath(np) ==
    /\ path' = np
    /\ i' = 1
    /\ j' = 1
    /\ paths' = PathDone(FALSE)
    /\ UNCHANGED <<pc, error, trace, shots>>

\* the running path finished without deciding the step: go on with another path
FollowPath(np) ==
    /\ path' = np
    /\ i' = 1
    /\ j' = 1
    /\ paths' = PathDone(TRUE)
    /\ UNCHANGED <<pc, error, trace, shots>>

\* the step succeeded: fall through to the next block the code enters
Advance(newShots) ==
    LET k == PosOf(pc)
        n == NextPos(k, product)
    IN /\ pc' = Program[n]
       /\ path' = FirstPath(Program[n])
       /\ i' = 1
       /\ j' = 1
       /\ trace' = trace \o AdvanceEvents(k, product)
       /\ paths' = PathDone(TRUE)
       /\ shots' = shots \o newShots
       /\ UNCHANGED error

\* Abort with the screenshot forgotten
AbortWithoutShot(tag, exc) ==
    /\ pc' = "Aborted"
    /\ error' = exc
    /\ trace' = Append(trace, Ev(pc, "fail"))
    /\ paths' = PathDone(FALSE)
    /\ UNCHANGED <<path, i, j, shots>>

\* Abort with the raise forgotten: the run goes on with the next block
AbortGoesOn(tag, exc) ==
    LET n == NextPos(PosOf(pc), product)
    IN /\ pc' = Program[n]
       /\ path' = FirstPath(Program[n])
       /\ i' = 1
       /\ j' = 1
       /\ error' = exc
       /\ trace' = trace \o <<Ev(pc, "fail"), Ev(Program[n], "begin")>>
       /\ paths' = PathDone(FALSE)
       /\ shots' = Append(shots, ShotPath(shop_key, tag))

\* page.screenshot(path=...) and raise: the run ends with the exception
Abort(tag, exc) ==
    /\ pc' = "Aborted"
    /\ error' = exc
    /\ trace' = Append(trace, Ev(pc, "fail"))
    /\ paths' = PathDone(FALSE)
    /\ shots' = Append(shots, ShotPath(shop_key, tag))
    /\ UNCHANGED <<path, i, j>>

\* StrategyLoop with the break forgotten: a success goes on to the next candidate
StrategyLoopWithoutBreak(cands, act, arg, tag, msg, newShots) ==
    \E ok \in BOOLEAN :
        /\ log' = Logged(<<Call(i, cands[i], act, arg, IF ok THEN "ok" ELSE "raised")>>)
        /\ IF i < Len(cands) THEN Continue(i + 1, j)
           ELSE IF ok THEN Advance(newShots)
           ELSE Abort(tag, RuntimeError(msg))

\* for loc in cands: try: call; flag = True; break / except: continue;
\* if not flag: screenshot; raise RuntimeError
StrategyLoop(cands, act, arg, tag, msg, newShots) ==
    \E ok \in BOOLEAN :
        /\ log' = Logged(<<Call(i, cands[i], act, arg, IF ok THEN "ok" ELSE "raised")>>)
        /\ IF ok THEN Advance(newShots)
           ELSE IF i < Len(cands) THEN Continue(i + 1, j)
           ELSE Abort(tag, RuntimeError(msg))

\* ------------------------------------------------------- BrowserManager

\* get_profile_path(shop_key), relative to profiles_base
get_profile_path(key) == "etsy_" \o key

\* {"profile": profile_dir, "created": int(time.time())}
ShopEntry(key, now) == [profile |-> get_profile_path(key), created |-> now]

\* d.setdefault(key, entry): the entry is stored only if the key has none
SetDefault(d, key, entry) ==
    [k \in DOMAIN d \cup {key} |-> IF k \in DOMAIN d THEN d[k] ELSE entry]

\* self._shops.setdefault(shop_key, {...}); self._save_shops_cfg(): the file
\* is rewritten with the _shops of this manager
save_shop(key) ==
    \E now \in Times :
        /\ shops' = SetDefault(shops, key, ShopEntry(key, now))
        /\ cfg' = SetDefault(shops, key, ShopEntry(key, now))

\* launch_persistent_context(shop_key): the memoized context, or a new one
launch_persistent_context(key) ==
    IF key \in DOMAIN browsers
    THEN UNCHANGED <<mgrVars, registry>>
    ELSE LET driver == IF play = NoDriver THEN ndrivers + 1 ELSE play
         IN /\ play' = driver
            /\ ndrivers' = IF play = NoDriver THEN ndrivers + 1 ELSE ndrivers
            /\ nctx' = nctx + 1
            /\ browsers' = [k \in DOMAIN browsers \cup {key} |->
                              IF k = key THEN [play |-> driver, ctx |-> nctx + 1]
                              ELSE browsers[k]]
            /\ save_shop(key)
            /\ UNCHANGED closed

\* close_context(shop_key): pop and close, stop the driver with the last context
close_context(key) ==
    LET left == [k \in DOMAIN browsers \ {key} |-> browsers[k]]
    IN /\ browsers' = left
       /\ closed' = IF key \in DOMAIN browsers THEN closed \cup {browsers[key].ctx} ELSE closed
       /\ play' = IF DOMAIN left = {} THEN NoDriver ELSE play
       /\ UNCHANGED <<ndrivers, nctx>>

\* ------------------------------------------------- create_product: category

LISTING_CREATE_URL == "https://www.etsy.com/your/shops/me/listing-editor/create"

\* ctx = launch_persistent_context; page = ctx.new_page(); page.goto(...)
OpenListingEditor ==
    /\ pc = "Open"
    /\ launch_persistent_context(shop_key)
    /\ log' = Logged(<<Call(1, LISTING_CREATE_URL, "goto", <<>>, "ok")>>)
    /\ Advance(<<>>)
    /\ UNCHANGED <<outer, product, shop_key, pageVars>>

input_candidates ==
    <<"placeholder=Search for a category",
      "xpath=/html/body/div[7]/div[2]/div[2]/div[2]/div[2]/div[1]/div[2]/div[1]/input">>

\* 1) fill the category input
CategorySearch ==
    /\ pc = "CategorySearch"
    /\ StrategyLoop(input_candidates, "fill", <<product.category_query>>,
                    "category_input_error", "Category input not found or not interactable.",
                    <<>>)
    /\ UNCHANGED <<outer, registry, product, shop_key, pageVars, mgrVars>>

\* CategorySelectKeyboard without `if not selected`: the click candidates are
\* tried after the keyboard selection whatever its outcome
CategorySelectKeyboardThenClicks ==
    /\ pc = "CategorySelectFirstSuggestion"
    /\ path = "keyboard"
    /\ \E out \in {"ArrowDown", "Enter", "ok"} :
        /\ log' = Logged(
               <<Call(1, "[role='option'], [role='listbox'], //div[@role='listbox']",
                      "wait_for_selector", <<>>, "ignored"),
                 Call(1, "keyboard", "press", <<"ArrowDown">>,
                      IF out = "ArrowDown" THEN "raised" ELSE "ok")>>
               \o (IF out = "ArrowDown" THEN <<>>
                   ELSE <<Call(1, "keyboard", "press", <<"Enter">>,
                               IF out = "Enter" THEN "raised" ELSE "ok")>>))
        /\ IF out = "ok" THEN FollowPath("click") ELSE SwitchPath("click")
    /\ UNCHANGED <<outer, registry, product, shop_key, pageVars, mgrVars>>

\* 2a/2b) wait for the suggestion panel (any outcome), then ArrowDown and Enter
CategorySelectKeyboard ==
    /\ pc = "CategorySelectFirstSuggestion"
    /\ path = "keyboard"
    /\ \E out \in {"ArrowDown", "Enter", "ok"} :
        /\ log' = Logged(
               <<Call(1, "[role='option'], [role='listbox'], //div[@role='listbox']",
                      "wait_for_selector", <<>>, "ignored"),
                 Call(1, "keyboard", "press", <<"ArrowDown">>,
                      IF out = "ArrowDown" THEN "raised" ELSE "ok")>>
               \o (IF out = "ArrowDown" THEN <<>>
                   ELSE <<Call(1, "keyboard", "press", <<"Enter">>,
                               IF out = "Enter" THEN "raised" ELSE "ok")>>))
        /\ IF out = "ok" THEN Advance(<<>>) ELSE SwitchPath("click")
    /\ UNCHANGED <<outer, registry, product, shop_key, pageVars, mgrVars>>

click_candidates ==
    <<"role=option >> first",
      "xpath=(//div[@role='listbox']//div | //ul[@role='listbox']//li)[1]",
      "xpath=(//div[contains(@class,'dropdown') or contains(@class,'popover') or contains(@class,'menu')]//div)[1]">>

\* 2c) click the first suggestion through the click candidates
CategorySelectClick ==
    /\ pc = "CategorySelectFirstSuggestion"
    /\ path = "click"
    /\ StrategyLoop(click_candidates, "click", <<>>,
                    "category_select_error", "Could not select the first category suggestion.",
                    <<>>)
    /\ UNCHANGED <<outer, registry, product, shop_key, pageVars, mgrVars>>

\* page.screenshot(path=f"etsy_{self.shop_key}_after_category.png")
AfterCategoryShot == <<ShotPath(shop_key, "after_category")>>

\* ConfirmCategoryLoop as `while not clicked`: after the 8th failed click the
\* clicks start over
ConfirmCategoryLoopUnbounded ==
    /\ pc = "ConfirmCategory"
    /\ path = "loop"
    /\ \E ok \in BOOLEAN :
        IF ok
        THEN /\ log' = Logged(<<Call(i, "role=button[name=Continue]", "click", <<>>, "ok")>>)
             /\ Advance(<<ShotPath(shop_key, "after_category")>>)
        ELSE /\ log' = <<Call(i, "role=button[name=Continue]", "click", <<>>, "raised"),
                         Call(i, "keyboard", "press", <<"Enter">>, "ignored")>>
             /\ Continue(IF i < ContinueAttempts THEN i + 1 ELSE 1, j)
    /\ UNCHANGED <<outer, registry, product, shop_key, pageVars, mgrVars>>

\* ConfirmCategoryLoop without the loop: the first failed click goes to the
\* fallback
ConfirmCategoryLoopOnce ==
    /\ pc = "ConfirmCategory"
    /\ path = "loop"
    /\ \E ok \in BOOLEAN :
        IF ok
        THEN /\ log' = Logged(<<Call(i, "role=button[name=Continue]", "click", <<>>, "ok")>>)
             /\ Advance(AfterCategoryShot)
        ELSE /\ log' = Logged(<<Call(i, "role=button[name=Continue]", "click", <<>>, "raised"),
                                Call(i, "keyboard", "press", <<"Enter">>, "ignored")>>)
             /\ SwitchPath("fallback")
    /\ UNCHANGED <<outer, registry, product, shop_key, pageVars, mgrVars>>

\* 3) the Continue button: up to 8 clicks, Enter after each failed one
ConfirmCategoryLoop ==
    /\ pc = "ConfirmCategory"
    /\ path = "loop"
    /\ \E ok \in BOOLEAN :
        IF ok
        THEN /\ log' = Logged(<<Call(i, "role=button[name=Continue]", "click", <<>>, "ok")>>)
             /\ Advance(AfterCategoryShot)
        ELSE /\ log' = Logged(<<Call(i, "role=button[name=Continue]", "click", <<>>, "raised"),
                                Call(i, "keyboard", "press", <<"Enter">>, "ignored")>>)
             /\ IF i < ContinueAttempts THEN Continue(i + 1, j) ELSE SwitchPath("fallback")
    /\ UNCHANGED <<outer, registry, product, shop_key, pageVars, mgrVars>>

continue_xpath == "xpath=/html/body/div[7]/div[2]/div[2]/div[2]/div[3]/div/button"

\* 3, except branch) the absolute xpath; on failure screenshot and bare raise
ConfirmCategoryFallback ==
    /\ pc = "ConfirmCategory"
    /\ path = "fallback"
    /\ \E ok \in BOOLEAN :
        /\ log' = Logged(<<Call(1, continue_xpath, "click", <<>>, IF ok THEN "ok" ELSE "raised")>>)
        /\ IF ok THEN Advance(AfterCategoryShot)
           ELSE Abort("category_continue_error", PlaywrightError("click", continue_xpath))
    /\ UNCHANGED <<outer, registry, product, shop_key, pageVars, mgrVars>>

\* ------------------------------------------------------ _fill_about_modal

modal_locators ==
    <<"role=dialog >> has heading 'Next, tell us about your listing'",
      "css=div[role='dialog']:not([aria-hidden='true']) >> first">>

\* locate the visible modal (two wait_for), then scroll it to the top (any outcome)
AboutModal ==
    /\ pc = "AboutModal"
    /\ \E ok \in BOOLEAN :
        IF ok
        THEN /\ log' = Logged(<<Call(i, modal_locators[i], "wait_for", <<>>, "ok"),
                                Call(i, "modal", "evaluate", <<"scrollTo top">>, "ignored")>>)
             /\ Advance(<<>>)
        ELSE /\ log' = Logged(<<Call(i, modal_locators[i], "wait_for", <<>>, "raised")>>)
             /\ IF i < Len(modal_locators) THEN Continue(i + 1, j)
                ELSE Abort("about_modal_not_visible", RuntimeError("About modal not visible."))
    /\ UNCHANGED <<outer, registry, product, shop_key, pageVars, mgrVars>>

\* _click_radio_by_label: the three candidates, then the radio input of the label
radio_candidates(label) ==
    <<"xpath=.//label[normalize-space()[contains(., '" \o label \o "')]]",
      "label=" \o label,
      "text=" \o label,
      "xpath=.//label[contains(., '" \o label \o "')]/descendant-or-self::label//input[@type='radio']">>

\* one candidate of _click_radio_by_label: scroll_into_view_if_needed, then click
\* (check for the radio input); False after the last one
click_radio_by_label(label, tag, msg) ==
    \E out \in {"scroll", "click", "ok"} :
        LET cands == radio_candidates(label)
            act == IF i < Len(cands) THEN "click" ELSE "check"
        IN /\ log' = Logged(
                  <<Call(i, cands[i], "scroll_into_view_if_needed", <<>>,
                         IF out = "scroll" THEN "raised" ELSE "ok")>>
                  \o (IF out = "scroll" THEN <<>>
                      ELSE <<Call(i, cands[i], act, <<>>,
                                  IF out = "click" THEN "raised" ELSE "ok")>>))
           /\ IF out = "ok" THEN Advance(<<>>)
              ELSE IF i < Len(cands) THEN Continue(i + 1, j)
              ELSE Abort(tag, RuntimeError(msg))

\* --- Who made it? ---
AboutWhoMade ==
    /\ pc = "AboutWhoMade"
    /\ click_radio_by_label(who_made_label(product.who_made), "about_who_made_error",
           "Failed to select 'Who made it?' option: " \o who_made_label(product.who_made))
    /\ UNCHANGED <<outer, registry, product, shop_key, pageVars, mgrVars>>

\* --- What is it? ---
AboutWhatIsIt ==
    /\ pc = "AboutWhatIsIt"
    /\ click_radio_by_label(what_is_it_label(product.is_supply), "about_what_is_it_error",
           "Failed to select 'What is it?' option: " \o what_is_it_label(product.is_supply))
    /\ UNCHANGED <<outer, registry, product, shop_key, pageVars, mgrVars>>

when_made_openers ==
    <<"role=combobox[name='When was it made?']",
      "label=When was it made?",
      "xpath=.//label[contains(., 'When was it made?')]/following-sibling::*[self::div or self::button]//button",
      "xpath=.//button[contains(., 'When did you make it?')]">>

\* --- When was it made? --- open the dropdown
AboutWhenMadeOpen ==
    /\ pc = "AboutWhenMade"
    /\ path = "open"
    /\ \E ok \in BOOLEAN :
        /\ log' = Logged(<<Call(i, when_made_openers[i], "click", <<>>,
                                IF ok THEN "ok" ELSE "raised")>>)
        /\ IF ok THEN FollowPath("keyboard")
           ELSE IF i < Len(when_made_openers) THEN Continue(i + 1, j)
           ELSE Abort("about_when_made_dropdown_error",
                      RuntimeError("Failed to open 'When was it made?' dropdown."))
    /\ UNCHANGED <<outer, registry, product, shop_key, pageVars, mgrVars>>

\* the keys of the keyboard path, in the order the code presses them
keyboard_keys(when_made) ==
    <<"Home">> \o [n \in 1..when_made_index(when_made) |-> "ArrowDown"] \o <<"Enter">>

\* AboutWhenMadeKeyboard going on to the listbox pick after the keys were sent
AboutWhenMadeKeyboardThenVisual ==
    /\ pc = "AboutWhenMade"
    /\ path = "keyboard"
    /\ \E ok \in BOOLEAN :
        LET keys == keyboard_keys(product.when_made)
        IN /\ log' = Logged(<<Call(1, "keyboard", "press", <<keys[i]>>,
                                   IF ok THEN "ok" ELSE "raised")>>)
           /\ IF ~ok THEN SwitchPath("locate")
              ELSE IF i < Len(keys) THEN Continue(i + 1, j)
              ELSE FollowPath("locate")
    /\ UNCHANGED <<outer, registry, product, shop_key, pageVars, mgrVars>>

\* the keyboard path, one key press at a time; a press that raises ends the path
AboutWhenMadeKeyboard ==
    /\ pc = "AboutWhenMade"
    /\ path = "keyboard"
    /\ \E ok \in BOOLEAN :
        LET keys == keyboard_keys(product.when_made)
        IN /\ log' = Logged(<<Call(1, "keyboard", "press", <<keys[i]>>,
                                   IF ok THEN "ok" ELSE "raised")>>)
           /\ IF ~ok THEN SwitchPath("locate")
              ELSE IF i < Len(keys) THEN Continue(i + 1, j)
              ELSE Advance(<<>>)
    /\ UNCHANGED <<outer, registry, product, shop_key, pageVars, mgrVars>>

\* _pick_from_open_listbox: lb.wait_for; if it raises lb becomes the xpath
\* locator; either way lb is set and the attempts follow
ListboxLocate ==
    /\ pc = "AboutWhenMade"
    /\ path = "locate"
    /\ \E ok \in BOOLEAN :
        /\ log' = Logged(<<Call(1, "css=[role='listbox']:not([aria-hidden='true']) >> last",
                                "wait_for", <<>>, IF ok THEN "ok" ELSE "raised")>>)
        /\ FollowPath("listbox")
    /\ UNCHANGED <<outer, registry, product, shop_key, pageVars, mgrVars>>

listbox_candidates(label) ==
    <<"lb >> role=option[name=" \o label \o "]",
      "lb >> text=" \o label,
      "lb >> xpath=.//*[(@role='option' or self::li or self::div) and normalize-space()='" \o label \o "']">>

\* page.keyboard.press("PageDown") goes to the element that has the focus: inside
\* the option panel it moves the panel, elsewhere the page itself scrolls down
PageDownOnPage(s) == [s EXCEPT !.y = ScrollStep]

\* one candidate of try_once in attempt i; after the last candidate of a failed
\* attempt the scroll inside the listbox (PageDown when the script raises)
ListboxTry ==
    /\ pc = "AboutWhenMade"
    /\ path = "listbox"
    /\ \E out \in {"scroll", "click", "ok"}, scrolled \in BOOLEAN, focus \in {"panel", "page"} :
        LET ui_label == map_when_made_to_ui(product.when_made)
            cands == listbox_candidates(ui_label)
            attempt ==
                <<Call(j, cands[j], "scroll_into_view_if_needed", <<>>,
                       IF out = "scroll" THEN "raised" ELSE "ok")>>
                \o (IF out = "scroll" THEN <<>>
                    ELSE <<Call(j, cands[j], "click", <<>>,
                                IF out = "click" THEN "raised" ELSE "ok")>>)
            scrolling ==
                <<Call(0, "lb", "evaluate", <<"el => el.scrollBy(0, 300)">>,
                       IF scrolled THEN "ok" ELSE "raised")>>
                \o (IF scrolled THEN <<>>
                    ELSE <<Call(0, "keyboard", "press", <<"PageDown">>, "ignored")>>)
        IN IF out = "ok"
           THEN /\ scrolled /\ focus = "panel"
                /\ log' = Logged(attempt)
                /\ UNCHANGED scroll
                /\ Advance(<<>>)
           ELSE IF j < Len(cands)
           THEN /\ scrolled /\ focus = "panel"
                /\ log' = Logged(attempt)
                /\ UNCHANGED scroll
                /\ Continue(i, j + 1)
           ELSE /\ scrolled => focus = "panel"
                /\ log' = Logged(attempt \o scrolling)
                /\ scroll' = IF ~scrolled /\ focus = "page" THEN PageDownOnPage(scroll) ELSE scroll
                /\ IF i < ListboxAttempts THEN Continue(i + 1, 1)
                   ELSE Abort("about_when_made_option_error",
                              RuntimeError("Failed to select 'When was it made?' option: "
                                           \o ui_label))
    /\ UNCHANGED <<outer, registry, product, shop_key, dialogs, mgrVars>>

continue_locators ==
    <<"role=button[name=Continue]", "text=Continue", "xpath=.//button[contains(., 'Continue')]">>

\* Continue: click each locator, Enter after each failed click; the modal closes
\* on success and may leave dialogs and scroll-lock residue behind
AboutContinue ==
    /\ pc = "AboutContinue"
    /\ \E ok \in BOOLEAN :
        IF ok
        THEN /\ log' = Logged(<<Call(i, continue_locators[i], "click", <<>>, "ok")>>)
             /\ dialogs' \in 0..MaxDialogs
             /\ scroll' \in Residues
             /\ Advance(<<>>)
        ELSE /\ log' = Logged(<<Call(i, continue_locators[i], "click", <<>>, "raised"),
                                Call(i, "keyboard", "press", <<"Enter">>, "ignored")>>)
             /\ UNCHANGED pageVars
             /\ IF i < Len(continue_locators) THEN Continue(i + 1, j)
                ELSE Abort("about_continue_error",
                           RuntimeError("Continue button in about modal did not become clickable."))
    /\ UNCHANGED <<outer, registry, product, shop_key, mgrVars>>

\* ------------------------------------- _dismiss_overlays, _restore_scroll

\* what visible_dialogs.count() == 0 sees of the number returned
Counted(n) == IF n = 0 THEN "none" ELSE "some"

\* DismissRound leaving _dismiss_overlays at once when a call of the loop raises
DismissRoundReturnsOnException ==
    /\ pc = "DismissOverlays"
    /\ path = "dialogs"
    /\ \E out \in {"count", "press", "ok"}, left \in 0..dialogs :
        LET counted == Call(i, "css=div[role='dialog']:not([aria-hidden='true'])", "count",
                            <<>>, IF out = "count" THEN "raised" ELSE Counted(dialogs))
            pressed == Call(i, "keyboard", "press", <<"Escape">>,
                            IF out = "press" THEN "raised" ELSE "ok")
        IN IF out = "count"
           THEN /\ left = dialogs
                /\ log' = Logged(<<counted>>)
                /\ UNCHANGED pageVars
                /\ Advance(<<>>)
           ELSE IF dialogs = 0
           THEN /\ out = "ok"
                /\ left = dialogs
                /\ log' = Logged(<<counted>>)
                /\ UNCHANGED pageVars
                /\ FollowPath("restore")
           ELSE IF out = "press"
           THEN /\ left = dialogs
                /\ log' = Logged(<<counted, pressed>>)
                /\ UNCHANGED pageVars
                /\ Advance(<<>>)
           ELSE /\ log' = Logged(<<counted, pressed>>)
                /\ dialogs' = left
                /\ UNCHANGED scroll
                /\ IF i < DismissRounds THEN Continue(i + 1, j) ELSE FollowPath("restore")
    /\ UNCHANGED <<outer, registry, product, shop_key, mgrVars>>

\* DismissRound sending Escape in every round, whatever the count says
DismissRoundAlwaysEscapes ==
    /\ pc = "DismissOverlays"
    /\ path = "dialogs"
    /\ \E out \in {"count", "press", "ok"}, left \in 0..dialogs :
        LET counted == Call(i, "css=div[role='dialog']:not([aria-hidden='true'])", "count",
                            <<>>, IF out = "count" THEN "raised" ELSE Counted(dialogs))
            pressed == Call(i, "keyboard", "press", <<"Escape">>,
                            IF out = "press" THEN "raised" ELSE "ok")
        IN IF out = "count"
           THEN /\ left = dialogs
                /\ log' = Logged(<<counted>>)
                /\ UNCHANGED pageVars
                /\ FollowPath("restore")
           ELSE IF out = "press"
           THEN /\ left = dialogs
                /\ log' = Logged(<<counted, pressed>>)
                /\ UNCHANGED pageVars
                /\ FollowPath("restore")
           ELSE /\ log' = Logged(<<counted, pressed>>)
                /\ dialogs' = left
                /\ UNCHANGED scroll
                /\ IF i < DismissRounds THEN Continue(i + 1, j) ELSE FollowPath("restore")
    /\ UNCHANGED <<outer, registry, product, shop_key, mgrVars>>

\* one round of the dialog loop: count the visible dialogs, Escape if any
DismissRound ==
    /\ pc = "DismissOverlays"
    /\ path = "dialogs"
    /\ \E out \in {"count", "press", "ok"}, left \in 0..dialogs :
        LET counted == Call(i, "css=div[role='dialog']:not([aria-hidden='true'])", "count",
                            <<>>, IF out = "count" THEN "raised" ELSE Counted(dialogs))
            pressed == Call(i, "keyboard", "press", <<"Escape">>,
                            IF out = "press" THEN "raised" ELSE "ok")
        IN IF out = "count"
           THEN /\ left = dialogs
                /\ log' = Logged(<<counted>>)
                /\ UNCHANGED pageVars
                /\ FollowPath("restore")
           ELSE IF dialogs = 0
           THEN /\ out = "ok"
                /\ left = dialogs
                /\ log' = Logged(<<counted>>)
                /\ UNCHANGED pageVars
                /\ FollowPath("restore")
           ELSE IF out = "press"
           THEN /\ left = dialogs
                /\ log' = Logged(<<counted, pressed>>)
                /\ UNCHANGED pageVars
                /\ FollowPath("restore")
           ELSE /\ log' = Logged(<<counted, pressed>>)
                /\ dialogs' = left
                /\ UNCHANGED scroll
                /\ IF i < DismissRounds THEN Continue(i + 1, j) ELSE FollowPath("restore")
    /\ UNCHANGED <<outer, registry, product, shop_key, mgrVars>>

\* _restore_scroll: the script runs, or raises and changes nothing
restore_scroll ==
    \E ok \in BOOLEAN :
        /\ log' = Logged(<<Call(1, "page", "evaluate", <<"restore scroll">>,
                                IF ok THEN "ok" ELSE "raised")>>)
        /\ scroll' = IF ok THEN RestoredScroll(scroll) ELSE scroll
        /\ UNCHANGED dialogs

\* DismissRestore with the exception of the script let through to the caller
DismissRestorePropagates ==
    /\ pc = "DismissOverlays"
    /\ path = "restore"
    /\ \E ok \in BOOLEAN :
        /\ log' = Logged(<<Call(1, "page", "evaluate", <<"restore scroll">>,
                                IF ok THEN "ok" ELSE "raised")>>)
        /\ scroll' = IF ok THEN RestoredScroll(scroll) ELSE scroll
        /\ UNCHANGED dialogs
        /\ IF ok THEN Advance(<<>>)
           ELSE /\ pc' = "Aborted"
                /\ error' = PlaywrightError("evaluate", "page")
                /\ trace' = Append(trace, Ev(pc, "fail"))
                /\ paths' = PathDone(FALSE)
                /\ UNCHANGED <<path, i, j, shots>>
    /\ UNCHANGED <<outer, registry, product, shop_key, mgrVars>>

\* _dismiss_overlays: "Restore scrolling in any case"
DismissRestore ==
    /\ pc = "DismissOverlays"
    /\ path = "restore"
    /\ restore_scroll
    /\ Advance(<<>>)
    /\ UNCHANGED <<outer, registry, product, shop_key, mgrVars>>

\* create_product: self._restore_scroll(page)
RestoreScroll ==
    /\ pc = "RestoreScroll"
    /\ restore_scroll
    /\ Advance(<<>>)
    /\ UNCHANGED <<outer, registry, product, shop_key, mgrVars>>

\* ------------------------------------------------ _fill_title_desc_photos

title_locators ==
    <<"label=Title",
      "xpath=//label[contains(., 'Title')]/following::*[self::input or self::textarea][1]">>

\* TitleFill with the screenshot tag of the description block
TitleFillDescriptionTag ==
    /\ pc = "TitleFill"
    /\ StrategyLoop(title_locators, "fill", <<product.title>>,
                    "description_fill_error", "Title field not found/fillable.", <<>>)
    /\ UNCHANGED <<outer, registry, product, shop_key, pageVars, mgrVars>>

\* Title
TitleFill ==
    /\ pc = "TitleFill"
    /\ StrategyLoop(title_locators, "fill", <<product.title>>,
                    "title_fill_error", "Title field not found/fillable.", <<>>)
    /\ UNCHANGED <<outer, registry, product, shop_key, pageVars, mgrVars>>

photo_anchors == <<"text=Photos", "text=Photos and video", "text=Add up to 10 photos">>

\* Photos: scroll the section into view through the first anchor that works, if any
PhotoAnchor ==
    /\ pc = "PhotoUpload"
    /\ path = "anchor"
    /\ \E ok \in BOOLEAN :
        /\ log' = Logged(<<Call(i, photo_anchors[i], "scroll_into_view_if_needed", <<>>,
                                IF ok THEN "ok" ELSE "raised")>>)
        /\ IF ok THEN FollowPath("upload")
           ELSE IF i < Len(photo_anchors) THEN Continue(i + 1, j)
           ELSE SwitchPath("upload")
    /\ UNCHANGED <<outer, registry, product, shop_key, pageVars, mgrVars>>

file_selectors ==
    <<"input[type='file'][multiple]",
      "input[type='file'][accept*='image']",
      "input[type='file']",
      "xpath=//input[@type='file' and @multiple]",
      "xpath=//div[contains(@class,'photo') or contains(@class,'drop')]/descendant::input[@type='file']">>

\* Photos: set_input_files(img_paths) on the first file input that takes them
PhotoUpload ==
    /\ pc = "PhotoUpload"
    /\ path = "upload"
    /\ StrategyLoop(file_selectors, "set_input_files", img_paths(product.images),
                    "photo_upload_error", "Photo upload input not found or not interactable.",
                    <<>>)
    /\ UNCHANGED <<outer, registry, product, shop_key, pageVars, mgrVars>>

description_locators ==
    <<"label=Description",
      "placeholder=Describe",
      "xpath=//label[contains(., 'Description')]/following::*[self::textarea or self::div[@contenteditable='true']][1]">>

\* Description
DescriptionFill ==
    /\ pc = "DescriptionFill"
    /\ StrategyLoop(description_locators, "fill", <<product.description>>,
                    "description_fill_error", "Description field not found/fillable.", <<>>)
    /\ UNCHANGED <<outer, registry, product, shop_key, pageVars, mgrVars>>

\* ------------------------------------------------ create_product: the end

\* how many scroll steps the script of _scroll_to_bottom takes to reach the bottom
PageScreens == {0, 1}

\* _scroll_to_bottom (any outcome), then the after_about screenshot
ScrollToBottom ==
    /\ pc = "ScrollToBottom"
    /\ \E ok \in BOOLEAN, screens \in PageScreens :
        /\ ~ok => screens = 0
        /\ log' = Logged(<<Call(1, "page", "evaluate", <<"scroll to bottom">>,
                                IF ok THEN "ok" ELSE "raised")>>)
        /\ scroll' = IF screens = 0 THEN scroll ELSE [scroll EXCEPT !.y = ScrollStep * screens]
    /\ UNCHANGED dialogs
    /\ Advance(<<ShotPath(shop_key, "after_about")>>)
    /\ UNCHANGED <<outer, registry, product, shop_key, mgrVars>>

\* CloseContext with the call of close_context left out: the run ends with the
\* session of its key still open
CloseContextKeepsSession ==
    /\ pc = "CloseContext"
    /\ UNCHANGED mgrVars
    /\ UNCHANGED log
    /\ Advance(<<>>)
    /\ UNCHANGED <<outer, registry, product, shop_key, pageVars>>

\* time.sleep(50); try: self.mgr.close_context(self.shop_key) except: pass
CloseContext ==
    /\ pc = "CloseContext"
    /\ close_context(shop_key)
    /\ UNCHANGED log
    /\ Advance(<<>>)
    /\ UNCHANGED <<outer, registry, product, shop_key, pageVars>>

\* ------------------------------------------------------ the specification

\* EtsyFunc(shop_key) constructed, create_product(product) called
Init ==
    /\ product \in ProductInput
    /\ shop_key \in ShopKeys
    /\ pc = "Open"
    /\ path = FirstPath("Open")
    /\ i = 1
    /\ j = 1
    /\ error = NoError
    /\ dialogs = 0
    /\ scroll = NormalScroll
    /\ browsers = <<>>
    /\ play = NoDriver
    /\ ndrivers = 0
    /\ nctx = 0
    /\ closed = {}
    /\ trace = <<Ev("Open", "begin")>>
    /\ paths = <<>>
    /\ log = <<>>
    /\ shots = <<>>
    /\ calls = <<>>
    /\ lock = NoThread
    /\ thr = [t \in Threads |-> Idle]
    /\ job = [t \in Threads |-> NoJob]
    /\ others = <<>>
    /\ shops = <<>>
    /\ cfg = <<>>

Next ==
    \/ OpenListingEditor
    \/ CategorySearch
    \/ CategorySelectKeyboard
    \/ CategorySelectClick
    \/ ConfirmCategoryLoop
    \/ ConfirmCategoryFallback
    \/ AboutModal
    \/ AboutWhoMade
    \/ AboutWhatIsIt
    \/ AboutWhenMadeOpen
    \/ AboutWhenMadeKeyboard
    \/ ListboxLocate
    \/ ListboxTry
    \/ AboutContinue
    \/ DismissRound
    \/ DismissRestore
    \/ RestoreScroll
    \/ TitleFill
    \/ PhotoAnchor
    \/ PhotoUpload
    \/ DescriptionFill
    \/ ScrollToBottom
    \/ CloseContext

Spec == Init /\ [][Next]_vars

\* the run goes on as long as it has a statement to execute: every call of the
\* code returns or raises, every sleep ends
FairSpec == Spec /\ WF_vars(Next)

\* ------------------------------------------- calls of _when_made_index

\* the workflow variables of an EtsyFunc on which create_product is not running
NoRun ==
    /\ product = ExampleProduct
    /\ pc = "NoRun"
    /\ path = "strategies"
    /\ i = 1
    /\ j = 1
    /\ error = NoError
    /\ trace = <<>>
    /\ paths = <<>>
    /\ log = <<>>
    /\ shots = <<>>

\* the BrowserManager of the first EtsyFunc, just constructed, no thread inside it
NewManager ==
    /\ browsers = <<>>
    /\ play = NoDriver
    /\ ndrivers = 0
    /\ nctx = 0
    /\ closed = {}
    /\ lock = NoThread
    /\ thr = [t \in Threads |-> Idle]
    /\ job = [t \in Threads |-> NoJob]
    /\ others = <<>>
    /\ shops = <<>>
    /\ cfg = <<>>

\* the values _when_made_index is called with: the semantic buckets, the labels
\* of the order, and values that are neither
LookupInputs ==
    DOMAIN WhenMadeMapping
    \cup {WhenMadeOrder[n] : n \in 1..Len(WhenMadeOrder)}
    \cup {"vintage", "2020-2025", "before 2006"}

LookupInit ==
    /\ NoRun
    /\ NewManager
    /\ shop_key \in ShopKeys
    /\ dialogs = 0
    /\ scroll = NormalScroll
    /\ calls = <<>>

\* self._when_made_index(w)
WhenMadeLookup ==
    /\ Len(calls) < MaxLookups
    /\ \E w \in LookupInputs :
        calls' = Append(calls, [fn |-> "_when_made_index", arg |-> w,
                                label |-> map_when_made_to_ui(w),
                                ret |-> when_made_index(w)])
    /\ UNCHANGED <<process, registry, product, shop_key, ctl, pageVars, mgrVars, hist, lock, thr>>

LookupNext == WhenMadeLookup

LookupSpec == LookupInit /\ [][LookupNext]_vars

\* ------------------------------------------- calls of _dismiss_overlays

\* inline style and class list an overlay may leave on html or body
ElementStates ==
    {Unlocked, Locked, [overflow |-> "hidden", position |-> "", classes |-> {"no-scroll"}]}

\* the scroll/overflow states a page can be in when _dismiss_overlays is called
PageStates == [html : ElementStates, body : ElementStates, y : {0, ScrollStep}]

\* the record of one call: the page before it and, once it returned (done), the
\* page after it and the outcome of its restore script
DismissCall(s, d) ==
    [fn |-> "_dismiss_overlays", before |-> [scroll |-> s, dialogs |-> d],
     after |-> [scroll |-> s, dialogs |-> d], restore |-> None, done |-> FALSE]

\* self._dismiss_overlays(page) called on a page in any state
DismissInit ==
    /\ product = ExampleProduct
    /\ shop_key \in ShopKeys
    /\ pc = "DismissOverlays"
    /\ path = FirstPath("DismissOverlays")
    /\ i = 1
    /\ j = 1
    /\ error = NoError
    /\ dialogs \in 0..MaxDialogs
    /\ scroll \in PageStates
    /\ NewManager
    /\ trace = <<Ev("DismissOverlays", "begin")>>
    /\ paths = <<>>
    /\ log = <<>>
    /\ shots = <<>>
    /\ calls = <<DismissCall(scroll, dialogs)>>

\* _dismiss_overlays has returned to its caller, which calls it again at once
\* (up to MaxDismissCalls calls in all)
DismissReturned ==
    /\ pc = "RestoreScroll"
    /\ LET returned == [calls EXCEPT ![Len(calls)] =
                           [@ EXCEPT !.after = [scroll |-> scroll, dialogs |-> dialogs],
                                     !.restore = log[Len(log)].res,
                                     !.done = TRUE]]
       IN IF Len(calls) < MaxDismissCalls
          THEN /\ calls' = Append(returned, DismissCall(scroll, dialogs))
               /\ pc' = "DismissOverlays"
               /\ path' = FirstPath("DismissOverlays")
               /\ trace' = Append(trace, Ev("DismissOverlays", "begin"))
          ELSE /\ calls' = returned
               /\ pc' = "NoRun"
               /\ path' = "strategies"
               /\ UNCHANGED trace
    /\ i' = 1
    /\ j' = 1
    /\ paths' = <<>>
    /\ log' = <<>>
    /\ UNCHANGED <<process, registry, product, shop_key, error, pageVars, mgrVars, shots, lock, thr>>

DismissNext ==
    \/ DismissRound
    \/ DismissRestore
    \/ DismissReturned

DismissSpec == DismissInit /\ [][DismissNext]_vars

\* ------------------------------------- BrowserManager called by threads

MgrInit ==
    /\ NoRun
    /\ NewManager
    /\ shop_key \in ShopKeys
    /\ dialogs = 0
    /\ scroll = NormalScroll
    /\ calls = <<>>

\* the EtsyFunc object the calls are made on, by its number in the order of
\* construction: the one that is not among the others
Self == CHOOSE o \in 1..(Len(others) + 1) : \A m \in 1..Len(others) : others[m].obj # o

\* the calls that have begun and not yet returned
Running == {n \in 1..Len(calls) : ~calls[n].done}

\* the record of a call that thread t begins: the EtsyFunc object it is made on
\* (obj, in order of construction), what it returned (ret), whether it created a
\* context, whether it ended with an exception (raised), and the calls that were
\* running when it began (during)
CallRecord(fn, t, key, running) ==
    [fn |-> fn, thread |-> t, obj |-> Self, key |-> key, ret |-> 0,
     created |-> FALSE, raised |-> FALSE, done |-> FALSE, during |-> running]

\* thread t enters the BrowserManager method op; n is its record in calls
Entered(t, op, key, n) ==
    [thr EXCEPT ![t] = [op |-> op, at |-> "acquire", key |-> key, ctx |-> 0, call |-> n]]

\* thread t is inside no method of the EtsyFunc or its BrowserManager
Free(t) == thr[t].at = "idle" /\ job[t].fn = "idle"

\* thread t calls mgr.launch_persistent_context(key) or mgr.close_context(key);
\* free threads are alike, so the call is made by the first free one
MgrCall(t) ==
    /\ Free(t)
    /\ \A u \in Threads : u < t => ~Free(u)
    /\ Len(calls) < MaxMgrCalls
    /\ \E op \in {"launch_persistent_context", "close_context"}, key \in MgrKeys :
        /\ thr' = Entered(t, op, key, Len(calls) + 1)
        /\ calls' = Append(calls, CallRecord(op, t, key, Running))
    /\ UNCHANGED <<process, registry, product, shop_key, ctl, pageVars, mgrVars, hist, lock>>

\* MgrAcquire entering the with block without waiting for the lock
MgrAcquireWithoutWaiting(t) ==
    /\ thr[t].at = "acquire"
    /\ lock' = t
    /\ thr' = [thr EXCEPT ![t].at =
                 IF thr[t].op = "launch_persistent_context" THEN "check" ELSE "pop"]
    /\ UNCHANGED <<process, registry, product, shop_key, ctl, pageVars, mgrVars, hist, calls>>

\* with self._lock: the thread waits until the lock is free and takes it
MgrAcquire(t) ==
    /\ thr[t].at = "acquire"
    /\ lock = NoThread
    /\ lock' = t
    /\ thr' = [thr EXCEPT ![t].at =
                 IF thr[t].op = "launch_persistent_context" THEN "check" ELSE "pop"]
    /\ UNCHANGED <<process, registry, product, shop_key, ctl, pageVars, mgrVars, hist, calls>>

\* leaving the with block and the method: the lock is released, the call returns
MgrReturn(t, ret, created) ==
    /\ lock' = NoThread
    /\ thr' = [thr EXCEPT ![t] = Idle]
    /\ calls' = [calls EXCEPT ![thr[t].call] =
                   [@ EXCEPT !.ret = ret, !.created = created, !.done = TRUE]]

\* MgrCheck without the memo: every call goes on to create a context
MgrCheckWithoutMemo(t) ==
    /\ thr[t].at = "check"
    /\ thr' = [thr EXCEPT ![t].at = "create"]
    /\ UNCHANGED <<lock, calls>>
    /\ UNCHANGED <<process, registry, product, shop_key, ctl, pageVars, mgrVars, hist>>

\* if shop_key in self._browsers: _, ctx = self._browsers[shop_key]; return ctx
MgrCheck(t) ==
    /\ thr[t].at = "check"
    /\ IF thr[t].key \in DOMAIN browsers
       THEN MgrReturn(t, browsers[thr[t].key].ctx, FALSE)
       ELSE /\ thr' = [thr EXCEPT ![t].at = "create"]
            /\ UNCHANGED <<lock, calls>>
    /\ UNCHANGED <<process, registry, product, shop_key, ctl, pageVars, mgrVars, hist>>

\* if self._play is None: start the driver; context = launch_persistent_context(...)
MgrCreate(t) ==
    /\ thr[t].at = "create"
    /\ play' = IF play = NoDriver THEN ndrivers + 1 ELSE play
    /\ ndrivers' = IF play = NoDriver THEN ndrivers + 1 ELSE ndrivers
    /\ nctx' = nctx + 1
    /\ thr' = [thr EXCEPT ![t].at = "insert", ![t].ctx = nctx + 1]
    /\ UNCHANGED <<process, registry, product, shop_key, ctl, pageVars, browsers, closed, hist, lock, calls>>

\* self._browsers[shop_key] = (self._play, context); the registry entry of the
\* key is set if it has none and shops.json is written; return context
MgrInsert(t) ==
    /\ thr[t].at = "insert"
    /\ browsers' = [k \in DOMAIN browsers \cup {thr[t].key} |->
                      IF k = thr[t].key THEN [play |-> play, ctx |-> thr[t].ctx]
                      ELSE browsers[k]]
    /\ save_shop(thr[t].key)
    /\ MgrReturn(t, thr[t].ctx, TRUE)
    /\ UNCHANGED <<process, product, shop_key, ctl, pageVars, play, ndrivers, nctx, closed, hist>>

\* MgrPop with pop(shop_key) in place of pop(shop_key, None): a key that is not
\* in the map raises KeyError, which leaves the with block and the method
MgrPopWithoutDefault(t) ==
    /\ thr[t].at = "pop"
    /\ IF thr[t].key \in DOMAIN browsers
       THEN /\ browsers' = [k \in DOMAIN browsers \ {thr[t].key} |-> browsers[k]]
            /\ closed' = closed \cup {browsers[thr[t].key].ctx}
            /\ thr' = [thr EXCEPT ![t].at = "stop", ![t].ctx = browsers[thr[t].key].ctx]
            /\ UNCHANGED <<lock, calls>>
       ELSE /\ lock' = NoThread
            /\ thr' = [thr EXCEPT ![t] = Idle]
            /\ calls' = [calls EXCEPT ![thr[t].call] = [@ EXCEPT !.raised = TRUE, !.done = TRUE]]
            /\ UNCHANGED <<browsers, closed>>
    /\ UNCHANGED <<process, registry, product, shop_key, ctl, pageVars, play, ndrivers, nctx, hist>>

\* MgrPop reading the entry with get() in place of pop(): the context is
\* closed and its entry stays in the map
MgrPopKeepsEntry(t) ==
    /\ thr[t].at = "pop"
    /\ UNCHANGED browsers
    /\ closed' = IF thr[t].key \in DOMAIN browsers
                 THEN closed \cup {browsers[thr[t].key].ctx} ELSE closed
    /\ thr' = [thr EXCEPT ![t].at = "stop",
                          ![t].ctx = IF thr[t].key \in DOMAIN browsers
                                     THEN browsers[thr[t].key].ctx ELSE 0]
    /\ UNCHANGED <<process, registry, product, shop_key, ctl, pageVars, play, ndrivers, nctx, hist, lock, calls>>

\* pair = self._browsers.pop(shop_key, None); if pair: ctx.close(), whose
\* exception, if any, is passed over
MgrPop(t) ==
    /\ thr[t].at = "pop"
    /\ browsers' = [k \in DOMAIN browsers \ {thr[t].key} |-> browsers[k]]
    /\ closed' = IF thr[t].key \in DOMAIN browsers
                 THEN closed \cup {browsers[thr[t].key].ctx} ELSE closed
    /\ thr' = [thr EXCEPT ![t].at = "stop",
                          ![t].ctx = IF thr[t].key \in DOMAIN browsers
                                     THEN browsers[thr[t].key].ctx ELSE 0]
    /\ UNCHANGED <<process, registry, product, shop_key, ctl, pageVars, play, ndrivers, nctx, hist, lock, calls>>

\* MgrStop with the test `not self._browsers` left out: the driver is stopped
\* at the end of every close_context
MgrStopAlways(t) ==
    /\ thr[t].at = "stop"
    /\ play' = NoDriver
    /\ MgrReturn(t, thr[t].ctx, FALSE)
    /\ UNCHANGED <<process, registry, product, shop_key, ctl, pageVars, browsers, ndrivers, nctx, closed, hist>>

\* MgrStop without `self._play = None`: the driver is stopped, the reference
\* to it stays
MgrStopKeepsReference(t) ==
    /\ thr[t].at = "stop"
    /\ UNCHANGED play
    /\ MgrReturn(t, thr[t].ctx, FALSE)
    /\ UNCHANGED <<process, registry, product, shop_key, ctl, pageVars, browsers, ndrivers, nctx, closed, hist>>

\* if not self._browsers and self._play: self._play.stop(), whose exception, if
\* any, is passed over; self._play = None
MgrStop(t) ==
    /\ thr[t].at = "stop"
    /\ play' = IF DOMAIN browsers = {} THEN NoDriver ELSE play
    /\ MgrReturn(t, thr[t].ctx, FALSE)
    /\ UNCHANGED <<process, registry, product, shop_key, ctl, pageVars, browsers, ndrivers, nctx, closed, hist>>

MgrNext ==
    \E t \in Threads :
        \/ MgrCall(t)
        \/ MgrAcquire(t)
        \/ MgrCheck(t)
        \/ MgrCreate(t)
        \/ MgrInsert(t)
        \/ MgrPop(t)
        \/ MgrStop(t)

MgrSpec == MgrInit /\ [][MgrNext]_vars

\* ------------------------- BrowserManager when a creation can fail

\* the call of thread t ends with an exception that leaves the with block: the
\* lock is released, the caller gets the exception
MgrRaise(t) ==
    /\ lock' = NoThread
    /\ thr' = [thr EXCEPT ![t] = Idle]
    /\ calls' = [calls EXCEPT ![thr[t].call] = [@ EXCEPT !.raised = TRUE, !.done = TRUE]]

\* MgrCreateFails with the lock taken by acquire() and released only at the
\* return: the exception leaves the method with the lock held
MgrCreateFailsHoldingLock(t) ==
    /\ thr[t].at = "create"
    /\ \E started \in BOOLEAN :
        /\ ~started => play = NoDriver
        /\ play' = IF started /\ play = NoDriver THEN ndrivers + 1 ELSE play
        /\ ndrivers' = IF started /\ play = NoDriver THEN ndrivers + 1 ELSE ndrivers
    /\ thr' = [thr EXCEPT ![t] = Idle]
    /\ calls' = [calls EXCEPT ![thr[t].call] = [@ EXCEPT !.raised = TRUE, !.done = TRUE]]
    /\ UNCHANGED lock
    /\ UNCHANGED <<process, registry, product, shop_key, ctl, pageVars, browsers, nctx, closed, hist>>

\* sync_playwright().start() raises (the driver is not started), or the driver
\* is there and get_profile_path or chromium.launch_persistent_context raises:
\* lines 74-77 are not reached
MgrCreateFails(t) ==
    /\ thr[t].at = "create"
    /\ \E started \in BOOLEAN :
        /\ ~started => play = NoDriver
        /\ play' = IF started /\ play = NoDriver THEN ndrivers + 1 ELSE play
        /\ ndrivers' = IF started /\ play = NoDriver THEN ndrivers + 1 ELSE ndrivers
    /\ MgrRaise(t)
    /\ UNCHANGED <<process, registry, product, shop_key, ctl, pageVars, browsers, nctx, closed, hist>>

FaultNext ==
    \E t \in Threads :
        \/ MgrCall(t)
        \/ MgrAcquire(t)
        \/ MgrCheck(t)
        \/ MgrCreate(t)
        \/ MgrCreateFails(t)
        \/ MgrInsert(t)
        \/ MgrPop(t)
        \/ MgrStop(t)

FaultSpec == MgrInit /\ [][FaultNext]_vars

\* --------------------------------- create_product called by threads

\* the create_product calls begun so far
RunCalls == {n \in 1..Len(calls) : calls[n].fn = "create_product"}

\* the object the calls are made on, to be kept among the others
Kept == [obj |-> Self, shop_key |-> shop_key, browsers |-> browsers, play |-> play,
         shops |-> shops]

\* EtsyFunc(key): self.shop_key = key; self.mgr = BrowserManager(), whose _shops
\* is read from shops.json.  The object constructed before is kept with its
\* manager, which no thread is inside.
Construct ==
    /\ \A t \in Threads : Free(t)
    /\ Len(others) < MaxObjects - 1
    /\ others' = Append(others, Kept)
    /\ shop_key' \in ShopKeys
    /\ browsers' = <<>>
    /\ play' = NoDriver
    /\ lock' = NoThread
    /\ shops' = cfg
    /\ UNCHANGED cfg
    /\ UNCHANGED <<product, ctl, pageVars, ndrivers, nctx, closed, hist, calls, thr, job>>

\* the create_product call of thread t is over: job done, record completed
RunOver(t, exc) ==
    /\ job' = [job EXCEPT ![t] = NoJob]
    /\ calls' = [calls EXCEPT ![job[t].call] =
                   [@ EXCEPT !.ret = job[t].ctx, !.raised = exc, !.done = TRUE]]

\* RunCall with a BrowserManager built at the start of every create_product
RunCallNewManager(t) ==
    /\ Free(t)
    /\ \A u \in Threads : u < t => ~Free(u)
    /\ Cardinality(RunCalls) < MaxRuns
    /\ LET n == Len(calls) + 1
       IN /\ job' = [job EXCEPT ![t] = [fn |-> "create_product", at |-> "launch", ctx |-> 0,
                                        page |-> "none", call |-> n]]
          /\ thr' = Entered(t, "launch_persistent_context", shop_key, n + 1)
          /\ calls' = calls \o
                <<CallRecord("create_product", t, shop_key, Running),
                  CallRecord("launch_persistent_context", t, shop_key, Running \cup {n})>>
    /\ browsers' = <<>>
    /\ play' = NoDriver
    /\ UNCHANGED <<registry, product, shop_key, ctl, pageVars, ndrivers, nctx, closed, hist, lock, others>>

\* thread t calls create_product on the latest EtsyFunc and enters
\* self.mgr.launch_persistent_context(self.shop_key); free threads are alike
RunCall(t) ==
    /\ Free(t)
    /\ \A u \in Threads : u < t => ~Free(u)
    /\ Cardinality(RunCalls) < MaxRuns
    /\ LET n == Len(calls) + 1
       IN /\ job' = [job EXCEPT ![t] = [fn |-> "create_product", at |-> "launch", ctx |-> 0,
                                        page |-> "none", call |-> n]]
          /\ thr' = Entered(t, "launch_persistent_context", shop_key, n + 1)
          /\ calls' = calls \o
                <<CallRecord("create_product", t, shop_key, Running),
                  CallRecord("launch_persistent_context", t, shop_key, Running \cup {n})>>
    /\ UNCHANGED <<registry, product, shop_key, ctl, pageVars, mgrVars, hist, lock, others>>

\* ctx = <the context returned>; page = ctx.new_page(); page.goto(...): on a
\* context that has been closed new_page raises and the exception leaves the run
RunOpen(t) ==
    /\ job[t].fn = "create_product"
    /\ job[t].at = "launch"
    /\ thr[t].at = "idle"
    /\ LET launch == calls[job[t].call + 1]
       IN IF launch.ret \in closed
          THEN /\ job' = [job EXCEPT ![t] = NoJob]
               /\ calls' = [calls EXCEPT ![job[t].call] =
                              [@ EXCEPT !.ret = launch.ret, !.created = launch.created,
                                        !.raised = TRUE, !.done = TRUE]]
          ELSE /\ job' = [job EXCEPT ![t].at = "steps", ![t].ctx = launch.ret,
                                     ![t].page = "open"]
               /\ calls' = [calls EXCEPT ![job[t].call] =
                              [@ EXCEPT !.ret = launch.ret, !.created = launch.created]]
    /\ UNCHANGED <<registry, product, shop_key, ctl, pageVars, mgrVars, hist, lock, thr, others>>

\* the steps on the page, from the category input to the after_about screenshot:
\* a step fails and its exception leaves the run with the context open, or all
\* succeed and, after time.sleep(50), the run enters self.mgr.close_context
RunSteps(t) ==
    /\ job[t].fn = "create_product"
    /\ job[t].at = "steps"
    /\ \E ok \in BOOLEAN :
        /\ job[t].ctx \in closed => ~ok
        /\ IF ok
           THEN /\ job' = [job EXCEPT ![t].at = "close"]
                /\ thr' = Entered(t, "close_context", shop_key, Len(calls) + 1)
                /\ calls' = Append(calls, CallRecord("close_context", t, shop_key, Running))
           ELSE /\ RunOver(t, TRUE)
                /\ UNCHANGED thr
    /\ UNCHANGED <<registry, product, shop_key, ctl, pageVars, mgrVars, hist, lock, others>>

\* try: self.mgr.close_context(self.shop_key) except: pass; create_product returns
RunReturn(t) ==
    /\ job[t].fn = "create_product"
    /\ job[t].at = "close"
    /\ thr[t].at = "idle"
    /\ RunOver(t, FALSE)
    /\ UNCHANGED <<registry, product, shop_key, ctl, pageVars, mgrVars, hist, lock, thr, others>>

RunsNext ==
    \/ Construct
    \/ \E t \in Threads :
        \/ RunCall(t)
        \/ RunOpen(t)
        \/ RunSteps(t)
        \/ RunReturn(t)
        \/ MgrAcquire(t)
        \/ MgrCheck(t)
        \/ MgrCreate(t)
        \/ MgrInsert(t)
        \/ MgrPop(t)
        \/ MgrStop(t)

RunsSpec == MgrInit /\ [][RunsNext]_vars

\* ------------------------------ ensure_manual_login called by threads

\* the default of login_url
LOGIN_URL == "https://www.etsy.com/signin"

\* the ensure_manual_login call of thread t is over: job done, record completed
LoginOver(t, exc, page) ==
    /\ job' = [job EXCEPT ![t] = NoJob]
    /\ calls' = [calls EXCEPT ![job[t].call] =
                   [@ EXCEPT !.ret = job[t].ctx, !.page = page, !.raised = exc, !.done = TRUE]]

\* thread t calls mgr.ensure_manual_login(key) and enters
\* self.launch_persistent_context(shop_key, headless=False)
LoginCall(t) ==
    /\ Free(t)
    /\ \A u \in Threads : u < t => ~Free(u)
    /\ Len(calls) < MaxMgrCalls
    /\ \E key \in MgrKeys :
        LET n == Len(calls) + 1
        IN /\ job' = [job EXCEPT ![t] = [fn |-> "ensure_manual_login", at |-> "launch",
                                         ctx |-> 0, page |-> "none", call |-> n]]
           /\ thr' = Entered(t, "launch_persistent_context", key, n + 1)
           /\ calls' = calls \o
                 <<[fn |-> "ensure_manual_login", thread |-> t, obj |-> Self,
                    key |-> key, ret |-> 0, created |-> FALSE, raised |-> FALSE,
                    done |-> FALSE, during |-> Running,
                    url |-> None, signal |-> FALSE, page |-> "none"],
                   CallRecord("launch_persistent_context", t, key, Running \cup {n})>>
    /\ UNCHANGED <<registry, product, shop_key, ctl, pageVars, mgrVars, hist, lock, others>>

\* page = ctx.new_page(); page.goto(login_url): new_page raises on a context that
\* has been closed; goto returns or raises, and then the page stays open
LoginOpen(t) ==
    /\ job[t].fn = "ensure_manual_login"
    /\ job[t].at = "launch"
    /\ thr[t].at = "idle"
    /\ LET n == job[t].call
           ctx == calls[n + 1].ret
       IN IF ctx \in closed
          THEN /\ job' = [job EXCEPT ![t] = NoJob]
               /\ calls' = [calls EXCEPT ![n] =
                              [@ EXCEPT !.ret = ctx, !.raised = TRUE, !.done = TRUE]]
          ELSE \E ok \in BOOLEAN :
                IF ok
                THEN /\ job' = [job EXCEPT ![t].at = "input", ![t].ctx = ctx,
                                           ![t].page = "open"]
                     /\ calls' = [calls EXCEPT ![n] =
                                    [@ EXCEPT !.ret = ctx, !.url = LOGIN_URL, !.page = "open"]]
                ELSE /\ job' = [job EXCEPT ![t] = NoJob]
                     /\ calls' = [calls EXCEPT ![n] =
                                    [@ EXCEPT !.ret = ctx, !.page = "open", !.raised = TRUE,
                                              !.done = TRUE]]
    /\ UNCHANGED <<registry, product, shop_key, ctl, pageVars, mgrVars, hist, lock, thr, others>>

\* input() returns: a line has arrived on the standard input, the person at the
\* browser has pressed ENTER
LoginInput(t) ==
    /\ job[t].fn = "ensure_manual_login"
    /\ job[t].at = "input"
    /\ job' = [job EXCEPT ![t].at = "close"]
    /\ calls' = [calls EXCEPT ![job[t].call].signal = TRUE]
    /\ UNCHANGED <<registry, product, shop_key, ctl, pageVars, mgrVars, hist, lock, thr, others>>

\* LoginClose closing the context of the key in place of the helper page
LoginCloseContext(t) ==
    /\ job[t].fn = "ensure_manual_login"
    /\ job[t].at = "close"
    /\ closed' = closed \cup {job[t].ctx}
    /\ LoginOver(t, FALSE, "closed")
    /\ UNCHANGED <<registry, product, shop_key, ctl, pageVars, browsers, play, ndrivers, nctx, hist,
                   lock, thr, others>>

\* time.sleep(1); page.close(), which returns or raises; the method returns
LoginClose(t) ==
    /\ job[t].fn = "ensure_manual_login"
    /\ job[t].at = "close"
    /\ \E ok \in BOOLEAN :
        IF ok THEN LoginOver(t, FALSE, "closed") ELSE LoginOver(t, TRUE, job[t].page)
    /\ UNCHANGED <<registry, product, shop_key, ctl, pageVars, mgrVars, hist, lock, thr, others>>

LoginNext ==
    \E t \in Threads :
        \/ MgrCall(t)
        \/ LoginCall(t)
        \/ LoginOpen(t)
        \/ LoginInput(t)
        \/ LoginClose(t)
        \/ MgrAcquire(t)
        \/ MgrCheck(t)
        \/ MgrCreate(t)
        \/ MgrInsert(t)
        \/ MgrPop(t)
        \/ MgrStop(t)

LoginSpec == MgrInit /\ [][LoginNext]_vars

\* ------------------------------------------- close_all called by threads

\* thread t calls mgr.close_all() and reaches `with self._lock`
CloseAllCall(t) ==
    /\ Free(t)
    /\ \A u \in Threads : u < t => ~Free(u)
    /\ Len(calls) < MaxMgrCalls
    /\ job' = [job EXCEPT ![t] = [fn |-> "close_all", at |-> "acquire", ctx |-> 0,
                                  page |-> "none", call |-> Len(calls) + 1, todo |-> {}]]
    /\ calls' = Append(calls, CallRecord("close_all", t, None, Running))
    /\ UNCHANGED <<registry, product, shop_key, ctl, pageVars, mgrVars, hist, lock, thr, others>>

\* with self._lock: the thread waits until the lock is free and takes it;
\* list(self._browsers.keys()) is taken
CloseAllAcquire(t) ==
    /\ job[t].fn = "close_all"
    /\ job[t].at = "acquire"
    /\ lock = NoThread
    /\ lock' = t
    /\ job' = [job EXCEPT ![t].at = "loop", ![t].todo = DOMAIN browsers]
    /\ UNCHANGED <<registry, product, shop_key, ctl, pageVars, mgrVars, hist, calls, thr, others>>

\* for k in list(...): self.close_context(k), entered with the lock still held by
\* this thread; after the last key the with block is left and the lock released
\* (releasing a lock that is not held raises RuntimeError).  The keys are taken
\* in the order of the dict, which the model leaves open.
CloseAllLoop(t) ==
    /\ job[t].fn = "close_all"
    /\ job[t].at = "loop"
    /\ thr[t].at = "idle"
    /\ IF job[t].todo = {}
       THEN /\ lock' = NoThread
            /\ job' = [job EXCEPT ![t] = NoJob]
            /\ calls' = [calls EXCEPT ![job[t].call] =
                           [@ EXCEPT !.raised = (lock # t), !.done = TRUE]]
            /\ UNCHANGED thr
       ELSE \E k \in job[t].todo :
            /\ job' = [job EXCEPT ![t].todo = @ \ {k}]
            /\ thr' = Entered(t, "close_context", k, Len(calls) + 1)
            /\ calls' = Append(calls, CallRecord("close_context", t, k, Running))
            /\ UNCHANGED lock
    /\ UNCHANGED <<registry, product, shop_key, ctl, pageVars, mgrVars, hist, others>>

CloseAllNext ==
    \E t \in Threads :
        \/ MgrCall(t)
        \/ CloseAllCall(t)
        \/ CloseAllAcquire(t)
        \/ CloseAllLoop(t)
        \/ MgrAcquire(t)
        \/ MgrCheck(t)
        \/ MgrCreate(t)
        \/ MgrInsert(t)
        \/ MgrPop(t)
        \/ MgrStop(t)

\* every thread that can take a step takes one in the end: a call returns, a
\* free lock is taken by one of the threads waiting for it
CloseAllSpec == MgrInit /\ [][CloseAllNext]_vars /\ WF_vars(CloseAllNext)

\* ------------------------ several EtsyFunc objects used in one process

\* the caller turns to one of the EtsyFunc objects constructed earlier: the next
\* calls are made on that object and its manager, the object used so far is kept
\* as it is.  Objects are changed between calls, when no thread is inside one.
Switch ==
    /\ \A t \in Threads : Free(t)
    /\ \E m \in 1..Len(others) :
        /\ others' = [others EXCEPT ![m] = Kept]
        /\ shop_key' = others[m].shop_key
        /\ browsers' = others[m].browsers
        /\ play' = others[m].play
        /\ shops' = others[m].shops
    /\ UNCHANGED cfg
    /\ UNCHANGED <<product, ctl, pageVars, ndrivers, nctx, closed, hist, calls, lock, thr, job>>

RegistryNext ==
    \/ Construct
    \/ Switch
    \/ \E t \in Threads :
        \/ MgrCall(t)
        \/ MgrAcquire(t)
        \/ MgrCheck(t)
        \/ MgrCreate(t)
        \/ MgrInsert(t)
        \/ MgrPop(t)
        \/ MgrStop(t)

RegistrySpec == MgrInit /\ [][RegistryNext]_vars

\* ================================================================ claims

\* ---------------------------------------------------- reading the history

\* the steps the workflow names, in the order it states
StepOrder ==
    <<"CategorySearch", "CategorySelectFirstSuggestion", "ConfirmCategory", "AboutWhoMade",
      "AboutWhatIsIt", "AboutWhenMade", "AboutContinue", "TitleFill", "PhotoUpload",
      "DescriptionFill">>

Range(f) == {f[x] : x \in DOMAIN f}
NamedSteps == Range(StepOrder)
StepPos(step) == CHOOSE n \in 1..Len(StepOrder) : StepOrder[n] = step

Has(step, what) == \E n \in 1..Len(trace) : trace[n] = Ev(step, what)
At(step, what) == CHOOSE n \in 1..Len(trace) : trace[n] = Ev(step, what)
Failed == {trace[n][1] : n \in {m \in 1..Len(trace) : trace[m][2] = "fail"}}
NamedEvents == SelectSeq(trace, LAMBDA e : e[1] \in NamedSteps)
BegunSteps ==
    LET begins == SelectSeq(trace, LAMBDA e : e[2] = "begin" /\ e[1] \in NamedSteps)
    IN [n \in 1..Len(begins) |-> begins[n][1]]

\* the screenshot tags the code writes on a failure branch
DiagnosticTags ==
    {"category_input_error", "category_select_error", "category_continue_error",
     "about_modal_not_visible", "about_who_made_error", "about_what_is_it_error",
     "about_when_made_dropdown_error", "about_when_made_option_error",
     "about_continue_error", "title_fill_error", "photo_upload_error",
     "description_fill_error"}
DiagnosticShots ==
    LET names == {ShotPath(shop_key, t) : t \in DiagnosticTags}
    IN SelectSeq(shots, LAMBDA s : s \in names)

\* the strategy attempts of the log: the calls on a locator (not the keyboard)
Attempts == SelectSeq(log, LAMBDA e : e.loc # "keyboard")

\* the candidate list of a multi-strategy step
CandidatesOf(step, pth) ==
    CASE step = "CategorySearch" -> input_candidates
      [] step = "AboutWhenMade" /\ pth = "open" -> when_made_openers
      [] step = "AboutContinue" -> continue_locators
      [] step = "TitleFill" -> title_locators
      [] step = "PhotoUpload" /\ pth = "upload" -> file_selectors
      [] step = "DescriptionFill" -> description_locators
      [] OTHER -> <<>>

\* C1: in each multi-strategy step the candidates are attempted in their listed
\* order, each attempt before the last one failed, and nothing is attempted after
\* a success.
C1_StrategiesInOrderUntilFirstSuccess ==
    log # <<>> =>
        LET cands == CandidatesOf(log[1].step, log[1].path)
            att == Attempts
        IN cands # <<>> =>
            /\ Len(att) <= Len(cands)
            /\ \A n \in 1..Len(att) :
                /\ att[n].strat = n
                /\ att[n].loc = cands[n]
                /\ n < Len(att) => att[n].res = "raised"

\* the title was filled by the second locator after the first one failed
C1_Witness ==
    /\ pc # "TitleFill"
    /\ Len(log) = 2
    /\ log[1].step = "TitleFill" /\ log[1].res = "raised"
    /\ log[2].loc = title_locators[2] /\ log[2].res = "ok"

\* the screenshot tags of each step's failure branches
FailureTags(step) ==
    CASE step = "CategorySearch" -> {"category_input_error"}
      [] step = "CategorySelectFirstSuggestion" -> {"category_select_error"}
      [] step = "ConfirmCategory" -> {"category_continue_error"}
      [] step = "AboutModal" -> {"about_modal_not_visible"}
      [] step = "AboutWhoMade" -> {"about_who_made_error"}
      [] step = "AboutWhatIsIt" -> {"about_what_is_it_error"}
      [] step = "AboutWhenMade" -> {"about_when_made_dropdown_error", "about_when_made_option_error"}
      [] step = "AboutContinue" -> {"about_continue_error"}
      [] step = "TitleFill" -> {"title_fill_error"}
      [] step = "PhotoUpload" -> {"photo_upload_error"}
      [] step = "DescriptionFill" -> {"description_fill_error"}
      [] OTHER -> {}

\* the failure of each step: the exception type and what its message is about
FailureSubject(step) ==
    CASE step = "CategorySearch" -> <<"RuntimeError", "Category input not found or not interactable.">>
      [] step = "CategorySelectFirstSuggestion" -> <<"RuntimeError", "Could not select the first category suggestion.">>
      [] step = "ConfirmCategory" -> <<"playwright.Error", "click: " \o continue_xpath>>
      [] step = "AboutModal" -> <<"RuntimeError", "About modal not visible.">>
      [] step = "AboutWhoMade" -> <<"RuntimeError", "Failed to select 'Who made it?' option: " \o who_made_label(product.who_made)>>
      [] step = "AboutWhatIsIt" -> <<"RuntimeError", "Failed to select 'What is it?' option: " \o what_is_it_label(product.is_supply)>>
      [] step = "AboutContinue" -> <<"RuntimeError", "Continue button in about modal did not become clickable.">>
      [] step = "TitleFill" -> <<"RuntimeError", "Title field not found/fillable.">>
      [] step = "PhotoUpload" -> <<"RuntimeError", "Photo upload input not found or not interactable.">>
      [] step = "DescriptionFill" -> <<"RuntimeError", "Description field not found/fillable.">>
      [] OTHER -> <<None, None>>

WhenMadeFailures ==
    {<<"RuntimeError", "Failed to open 'When was it made?' dropdown.">>,
     <<"RuntimeError", "Failed to select 'When was it made?' option: "
                       \o map_when_made_to_ui(product.when_made)>>}

IdentifiesStep(err, step) ==
    IF step = "AboutWhenMade" THEN <<err.type, err.args[1]>> \in WhenMadeFailures
    ELSE <<err.type, err.args[1]>> = FailureSubject(step)

C3_StepsInFixedOrder ==
    LET begun == BegunSteps
        caller == log[Len(log)].step
    IN /\ \A n \in 2..Len(begun) :
           /\ StepPos(begun[n - 1]) < StepPos(begun[n])
           /\ Has(begun[n - 1], "ok")
           /\ At(begun[n - 1], "ok") < At(begun[n], "begin")
       /\ (log # <<>> /\ caller \in NamedSteps) =>
           /\ \A n \in 1..Len(log) : log[n].step = caller
           /\ Has(caller, "begin")
           /\ \A m \in 1..(StepPos(caller) - 1) :
               Has(StepOrder[m], "ok") \/ Has(StepOrder[m], "skip")
       /\ pc \in NamedSteps => (Has(pc, "begin") /\ ~Has(pc, "ok") /\ ~Has(pc, "skip"))

\* a run in which none of the ten steps was skipped reached the end
C3_Witness ==
    /\ pc = "Done"
    /\ BegunSteps = StepOrder

\* the position of a pc in the code, the terminal positions last
Progress(at) == IF at = "Aborted" THEN Len(Program) + 1 ELSE PosOf(at)

C4_State ==
    /\ \A n \in 1..Len(trace) : trace[n][2] = "fail" => n = Len(trace)
    /\ \A n, m \in 1..Len(trace) : (trace[n] = trace[m]) => n = m
    /\ pc = "Aborted" => (log # <<>> /\ log[Len(log)].step \in Failed)

C4_Step ==
    /\ pc # "Aborted"
    /\ Progress(pc') >= Progress(pc)
    /\ \A n \in 1..Len(trace) : trace'[n] = trace[n]

\* C4: a step failure is the last event of the run: the run is then aborted, the
\* last UI call is one of the failed step, and nothing changes afterwards; no step
\* begins, succeeds or is skipped twice, and the run never moves back in the code.
C4_AbortOnFirstFailureNoCycles == [](C4_State) /\ [][C4_Step]_vars

\* the run was aborted in the middle, by the who-made radio
C4_Witness ==
    /\ pc = "Aborted"
    /\ Failed = {"AboutWhoMade"}
    /\ ~Has("AboutWhatIsIt", "begin")

\* C5: for the example product, a run in which no step fails goes through all ten
\* steps in order, skipping none, and ends in Done; while it is under way some
\* step of it can be taken.
C5_ExampleRunReachesDone ==
    product = ExampleProduct =>
        /\ \A s \in NamedSteps : ~Has(s, "skip")
        /\ pc = "Done" =>
            NamedEvents = [n \in 1..(2 * Len(StepOrder)) |->
                             Ev(StepOrder[(n + 1) \div 2], IF n % 2 = 1 THEN "begin" ELSE "ok")]
        /\ Failed = {} => (pc = "Done" \/ ENABLED Next)
        /\ Failed = {} => pc # "Aborted"

\* the example product's run ended in Done
C5_Witness ==
    /\ product = ExampleProduct
    /\ pc = "Done"
    /\ Has("DescriptionFill", "ok")

\* the event that follows the event (step, what) in the trace
After(step, what, k) == trace[At(step, what) + k]

C7_WhenMadeAbsentSkipped ==
    ~Truthy(product.when_made) =>
        /\ pc # "AboutWhenMade"
        /\ \A what \in {"begin", "ok", "fail"} : ~Has("AboutWhenMade", what)
        /\ \A n \in 1..Len(log) : log[n].step # "AboutWhenMade"
        /\ \A n \in 1..Len(paths) : paths[n].step # "AboutWhenMade"
        /\ \A n \in 1..Len(shots) :
            shots[n] \notin {ShotPath(shop_key, t) : t \in FailureTags("AboutWhenMade")}
        /\ Has("AboutWhatIsIt", "ok") =>
            /\ After("AboutWhatIsIt", "ok", 1) = Ev("AboutWhenMade", "skip")
            /\ After("AboutWhatIsIt", "ok", 2) = Ev("AboutContinue", "begin")

\* a product without when_made arrived at the Continue button of the about modal
C7_Witness ==
    /\ product.when_made = None
    /\ pc = "AboutContinue"
    /\ log # <<>> /\ log[Len(log)].step = "AboutWhatIsIt"

\* C8: with an empty image list the photo block is never entered: no event, no
\* path outcome and no UI call of PhotoUpload exists, no photo-upload failure is
\* reported, and after TitleFill succeeds the step is skipped and the run goes on
\* to the description block.
C8_NoImagesSkipped ==
    product.images = <<>> =>
        /\ pc # "PhotoUpload"
        /\ \A what \in {"begin", "ok", "fail"} : ~Has("PhotoUpload", what)
        /\ \A n \in 1..Len(log) : log[n].step # "PhotoUpload"
        /\ \A n \in 1..Len(paths) : paths[n].step # "PhotoUpload"
        /\ \A n \in 1..Len(shots) : shots[n] # ShotPath(shop_key, "photo_upload_error")
        /\ Has("TitleFill", "ok") =>
            /\ After("TitleFill", "ok", 1) = Ev("PhotoUpload", "skip")
            /\ After("TitleFill", "ok", 2) =
                 Ev("DescriptionFill", IF Truthy(product.description) THEN "begin" ELSE "skip")

\* a product without images, its title filled, arrived at the description
C8_Witness ==
    /\ product.images = <<>>
    /\ pc = "DescriptionFill"
    /\ Has("TitleFill", "ok")
    /\ log # <<>> /\ log[Len(log)].step = "TitleFill"

\* C9: once AboutContinue has succeeded the next thing the run does is the overlay
\* dismissal, never skipped; the dismissal ends with the scroll restore; and
\* TitleFill begins only after the dismissal has finished.
C9_DismissBeforeTitleFill ==
    /\ Has("AboutContinue", "ok") => After("AboutContinue", "ok", 1) = Ev("DismissOverlays", "begin")
    /\ pc = "RestoreScroll" =>
        /\ log # <<>>
        /\ log[Len(log)].step = "DismissOverlays"
        /\ log[Len(log)].path = "restore"
        /\ log[Len(log)].act = "evaluate"
    /\ (Has("TitleFill", "begin") \/ pc = "TitleFill" \/ (log # <<>> /\ log[1].step = "TitleFill")) =>
        /\ Has("AboutContinue", "ok")
        /\ Has("DismissOverlays", "ok")
        /\ At("AboutContinue", "ok") < At("DismissOverlays", "begin")
        /\ At("DismissOverlays", "begin") < At("DismissOverlays", "ok")
        /\ At("DismissOverlays", "ok") < At("TitleFill", "begin")

\* the title is about to be filled on a page that showed no dialog to dismiss
C9_Witness ==
    /\ pc = "TitleFill"
    /\ dialogs = 0
    /\ scroll = NormalScroll
    /\ Has("DismissOverlays", "ok")

\* the 0-based position of a label in the fixed when-made order
LabelPosition(label) == CHOOSE k \in 0..(Len(WhenMadeOrder) - 1) : WhenMadeOrder[k + 1] = label

\* Home, k times ArrowDown, Enter
ExpectedKeys(k) ==
    [n \in 1..(k + 2) |-> IF n = 1 THEN "Home" ELSE IF n = k + 2 THEN "Enter" ELSE "ArrowDown"]

KeyboardSelected ==
    \E n \in 1..Len(paths) : paths[n] = [step |-> "AboutWhenMade", path |-> "keyboard", ok |-> TRUE]

\* C10: for a when_made whose UI label is at position k of the fixed order, the
\* key presses of the keyboard path are at every moment a prefix of Home,
\* k times ArrowDown, Enter, each press before the last one having returned; when
\* the keyboard path has selected, they are exactly that sequence.
C10_KeyboardPathKeys ==
    (/\ log # <<>>
     /\ log[1].step = "AboutWhenMade"
     /\ log[1].path = "keyboard"
     /\ \E n \in 1..Len(WhenMadeOrder) : WhenMadeOrder[n] = map_when_made_to_ui(product.when_made))
    => LET k == LabelPosition(map_when_made_to_ui(product.when_made))
           keys == ExpectedKeys(k)
       IN /\ Len(log) <= k + 2
          /\ \A n \in 1..Len(log) :
              /\ log[n].loc = "keyboard"
              /\ log[n].act = "press"
              /\ log[n].arg = <<keys[n]>>
              /\ n < Len(log) => log[n].res = "ok"
          /\ KeyboardSelected = (Len(log) = k + 2 /\ log[Len(log)].res = "ok")

\* the keyboard path selected the last entry of the order
C10_Witness ==
    /\ product.when_made = "1900s"
    /\ KeyboardSelected
    /\ Len(log) = Len(WhenMadeOrder) + 1
    /\ log[1].path = "keyboard"

\* a when_made value that is neither a semantic bucket nor a label of the order
Unrecognized(w) ==
    /\ Truthy(w)
    /\ w \notin DOMAIN WhenMadeMapping
    /\ \A n \in 1..Len(WhenMadeOrder) : WhenMadeOrder[n] # w

InKeyboardPath == log # <<>> /\ log[1].step = "AboutWhenMade" /\ log[1].path = "keyboard"

\* C11: for an unrecognized when_made the index lookup answers 0; once the
\* dropdown is open the keyboard path is entered and can press its next key (the
\* lookup raises nothing); the keys it sends are a prefix of Home, Enter with no
\* ArrowDown, and they are exactly Home, Enter when the keyboard path selected.
C11_UnrecognizedDefaultsToFirst ==
    Unrecognized(product.when_made) =>
        /\ when_made_index(product.when_made) = 0
        /\ (pc = "AboutWhenMade" /\ path = "keyboard") =>
            /\ i \in 1..2
            /\ ENABLED AboutWhenMadeKeyboard
            /\ error = NoError
        /\ InKeyboardPath =>
            /\ Len(log) <= 2
            /\ \A n \in 1..Len(log) :
                /\ log[n].act = "press"
                /\ log[n].arg = <<(<<"Home", "Enter">>)[n]>>
                /\ n < Len(log) => log[n].res = "ok"
            /\ KeyboardSelected = (Len(log) = 2 /\ log[2].res = "ok")
        /\ KeyboardSelected => Has("AboutWhenMade", "ok")

\* the keyboard path confirmed the first entry for the value "vintage"
C11_Witness ==
    /\ Unrecognized(product.when_made)
    /\ KeyboardSelected
    /\ InKeyboardPath
    /\ Len(log) = 2
    /\ log[2].arg = <<"Enter">>

\* the positions of the fixed order that hold a label, 0-based
PositionsOf(label) == {k \in 0..(Len(WhenMadeOrder) - 1) : WhenMadeOrder[k + 1] = label}

\* C12: every lookup of a supported semantic bucket answers the one position of
\* the fixed order that holds the bucket's UI label, and two lookups of different
\* supported buckets never answer the same index.
C12_BucketsResolveToOneIndex ==
    /\ \A n \in 1..Len(calls) :
        calls[n].arg \in DOMAIN WhenMadeMapping =>
            /\ calls[n].label = WhenMadeMapping[calls[n].arg]
            /\ PositionsOf(calls[n].label) = {calls[n].ret}
    /\ \A n, m \in 1..Len(calls) :
        (calls[n].arg \in DOMAIN WhenMadeMapping /\ calls[m].arg \in DOMAIN WhenMadeMapping) =>
            (calls[n].ret = calls[m].ret) = (calls[n].arg = calls[m].arg)

\* two mapped buckets were looked up: before_2006 (position 4) and 2020_2025
C12_Witness ==
    /\ Len(calls) = 2
    /\ calls[1].arg = "before_2006" /\ calls[1].ret = 4
    /\ calls[2].arg = "2020_2025" /\ calls[2].ret = 1

\* the outcome of a path of the AboutWhenMade step, as long as paths holds that step
PathOutcome(pth, ok) ==
    \E n \in 1..Len(paths) : paths[n] = [step |-> "AboutWhenMade", path |-> pth, ok |-> ok]

KeyboardFailed == PathOutcome("keyboard", FALSE)
VisualFailed == PathOutcome("listbox", FALSE)
VisualSucceeded == PathOutcome("listbox", TRUE)
\* _pick_from_open_listbox has been or is about to be entered
VisualAttempted ==
    \/ pc = "AboutWhenMade" /\ path \in {"locate", "listbox"}
    \/ PathOutcome("locate", TRUE)
    \/ log # <<>> /\ log[1].step = "AboutWhenMade" /\ log[1].path \in {"locate", "listbox"}

LastShot == IF shots = <<>> THEN None ELSE shots[Len(shots)]

\* C13 as stated: the visual-match fallback is attempted only when the keyboard
\* path failed; the AboutWhenMade step fails, with its capture, only when both the
\* keyboard path and the visual-match fallback failed; if either path succeeds
\* the step succeeds.
C13_FailsOnlyWhenBothPathsFailed ==
    /\ VisualAttempted => KeyboardFailed
    /\ "AboutWhenMade" \in Failed =>
        /\ KeyboardFailed
        /\ VisualFailed
        /\ LastShot \in {ShotPath(shop_key, t) : t \in FailureTags("AboutWhenMade")}
    /\ (KeyboardSelected \/ VisualSucceeded) => Has("AboutWhenMade", "ok")

\* C13, amended: the visual-match fallback is attempted only when the dropdown was
\* opened and a key press of the keyboard path raised; the step succeeds exactly
\* when one of the two paths succeeds; it fails either because no opener could
\* open the dropdown (capture about_when_made_dropdown_error, neither path tried)
\* or because both paths failed (capture about_when_made_option_error).
C13_FailsOnOpenOrBothPaths ==
    /\ VisualAttempted => PathOutcome("open", TRUE) /\ KeyboardFailed
    /\ (pc = "AboutWhenMade" /\ path = "locate") =>
        /\ log[Len(log)].loc = "keyboard"
        /\ log[Len(log)].res = "raised"
    /\ "AboutWhenMade" \in Failed =>
        \/ /\ paths = <<[step |-> "AboutWhenMade", path |-> "open", ok |-> FALSE]>>
           /\ ~VisualAttempted
           /\ LastShot = ShotPath(shop_key, "about_when_made_dropdown_error")
           /\ error = RuntimeError("Failed to open 'When was it made?' dropdown.")
        \/ /\ PathOutcome("open", TRUE)
           /\ KeyboardFailed
           /\ VisualFailed
           /\ LastShot = ShotPath(shop_key, "about_when_made_option_error")
           /\ error = RuntimeError("Failed to select 'When was it made?' option: "
                                   \o map_when_made_to_ui(product.when_made))
    /\ (KeyboardSelected \/ VisualSucceeded) =>
        /\ Has("AboutWhenMade", "ok")
        /\ "AboutWhenMade" \notin Failed
        /\ ~(KeyboardSelected /\ VisualAttempted)
    /\ (Has("AboutWhenMade", "ok") /\ paths # <<>> /\ paths[1].step = "AboutWhenMade") =>
        (KeyboardSelected \/ VisualSucceeded)

\* the keyboard path failed, the tenth listbox attempt failed, the step aborted
C13_Witness ==
    /\ Failed = {"AboutWhenMade"}
    /\ KeyboardFailed
    /\ VisualFailed
    /\ i = ListboxAttempts

InListbox == log # <<>> /\ log[1].step = "AboutWhenMade" /\ log[1].path = "listbox"
\* the positions of the log that hold a scroll of _pick_from_open_listbox
ScrollCalls == {n \in 1..Len(log) : log[n].strat = 0}
ClickedAt == {n \in 1..Len(log) : log[n].act = "click" /\ log[n].res = "ok"}

\* the visual-match fallback makes at most ListboxAttempts attempts, succeeds at
\* the first clicked candidate, scrolls only after the last candidate of an
\* attempt failed, and fails after the last failed attempt
BoundedAttempts ==
    /\ (pc = "AboutWhenMade" /\ path = "listbox") =>
        i \in 1..ListboxAttempts /\ j \in 1..Len(listbox_candidates(""))
    /\ InListbox =>
        /\ log[1].iter[1] \in 1..ListboxAttempts
        /\ \A n \in ClickedAt :
            /\ n = Len(log)
            /\ ScrollCalls = {}
            /\ VisualSucceeded
            /\ Has("AboutWhenMade", "ok")
        /\ VisualSucceeded => ClickedAt # {}
        /\ \A n \in ScrollCalls :
            /\ log[1].iter[2] = Len(listbox_candidates(""))
            /\ ClickedAt = {}
            /\ n > 1
            /\ log[n - 1].res \in {"raised", "ignored"}
        /\ VisualFailed = (/\ log[1].iter = <<ListboxAttempts, Len(listbox_candidates(""))>>
                           /\ ScrollCalls # {})
    /\ VisualFailed => InListbox /\ pc = "Aborted"

\* every scroll of the fallback is made on the option panel, and the page is not
\* scrolled while the dropdown selection runs
ScrollsPanelOnly ==
    /\ InListbox => \A n \in ScrollCalls : log[n].loc = "lb"
    /\ (pc = "AboutWhenMade" \/ "AboutWhenMade" \in Failed) => scroll = NormalScroll

\* C14: the visual-match fallback terminates: at most 10 match attempts, success
\* at the first attempt in which a candidate is clicked, a scroll only after a
\* failed attempt, failure after the 10th failed attempt, and every scroll inside
\* the option panel and not on the page.
C14_FallbackBoundedScrollsPanel == BoundedAttempts /\ ScrollsPanelOnly

\* the scroll script raised in a failed attempt, PageDown went to the page
C14_Witness ==
    /\ InListbox
    /\ \E n \in ScrollCalls : log[n].loc = "keyboard" /\ log[n].arg = <<"PageDown">>
    /\ scroll.y # 0

\* ------------------------------------------ claims on _dismiss_overlays

\* the calls of _dismiss_overlays that have returned
Returned == {n \in 1..Len(calls) : calls[n].fn = "_dismiss_overlays" /\ calls[n].done}

\* what the claim compares of a page: overflow mode, position lock, scroll-lock
\* classes, scroll offset
LockState(el) ==
    [overflow |-> el.overflow, position |-> el.position, locks |-> el.classes \cap LockClasses]
ScrollState(s) == [html |-> LockState(s.html), body |-> LockState(s.body), y |-> s.y]

NormalState ==
    LET free == [overflow |-> "auto", position |-> "", locks |-> {}]
    IN [html |-> free, body |-> free, y |-> 0]

InDismiss == log # <<>> /\ log[1].step = "DismissOverlays"
Raised == {n \in 1..Len(log) : log[n].res = "raised"}

\* C16: whichever page operation of a dismiss call raises (the dialog count, the
\* Escape press, the restore script), no exception leaves the call: no failure is
\* recorded, the run is not aborted, and the call goes on to its restore and
\* returns to the caller.
C16_DismissNeverFails ==
    /\ error = NoError
    /\ pc # "Aborted"
    /\ Failed = {}
    /\ shots = <<>>
    /\ pc = "DismissOverlays" => ENABLED DismissNext
    /\ (InDismiss /\ Raised # {}) =>
        \/ pc = "DismissOverlays" /\ path = "restore" /\ log[Len(log)].path = "dialogs"
        \/ pc = "RestoreScroll" /\ log[Len(log)].path = "restore"
    /\ \A n \in Returned : calls[n].restore \in {"ok", "raised"}

\* a call returned although its Escape press and its restore script both raised
C16_Witness ==
    /\ pc = "RestoreScroll"
    /\ InDismiss
    /\ \E n \in Raised : log[n].act = "press"
    /\ \E n \in Raised : log[n].act = "evaluate"
    /\ error = NoError

RestoreCalls == {n \in 1..Len(log) : log[n].path = "restore"}

\* C17: a dismiss call runs the scroll restore exactly once and as its last
\* action: not before the dialog loop has ended, and always after it, however the
\* loop ended (first count 0, a later count 0, all rounds with a dialog, or an
\* exception).
C17_RestoreOnceLast ==
    /\ (pc = "DismissOverlays" /\ InDismiss) => RestoreCalls = {}
    /\ (pc = "DismissOverlays" /\ path = "restore") =>
        /\ InDismiss
        /\ ENABLED DismissRestore
        /\ \/ log[Len(log)].res \in {"raised", "none"}
           \/ log[Len(log)].iter = <<1, 1>> /\ log[Len(log)].strat = DismissRounds
    /\ pc = "RestoreScroll" =>
        /\ InDismiss
        /\ RestoreCalls = {Len(log)}
        /\ Len(log) > 1
        /\ log[Len(log)].act = "evaluate"
        /\ log[Len(log)].loc = "page"
        /\ \A n \in 1..(Len(log) - 1) : log[n].path = "dialogs"
    /\ \A n \in Returned : calls[n].restore \in {"ok", "raised"}

\* the dialog loop ended through a raising count in its second round, then the restore ran
C17_Witness ==
    /\ pc = "RestoreScroll"
    /\ InDismiss
    /\ Len(log) = 4
    /\ log[3].act = "count" /\ log[3].res = "raised"
    /\ RestoreCalls = {4}

Escapes == {n \in 1..Len(log) : log[n].act = "press" /\ log[n].arg = <<"Escape">>}
Counts == {n \in 1..Len(log) : log[n].act = "count"}

\* C18: one dismiss call sends at most 4 Escape keys; each Escape directly follows
\* a count that found a visible dialog; after a count that found none (or raised)
\* no Escape is sent and no further count is made.
C18_EscapeOnlyAfterVisibleDialog ==
    InDismiss =>
        /\ Cardinality(Escapes) <= DismissRounds
        /\ Cardinality(Counts) <= DismissRounds
        /\ \A n \in Escapes :
            /\ n > 1
            /\ (n - 1) \in Counts
            /\ log[n - 1].res = "some"
        /\ \A n \in Counts : log[n].res \in {"none", "raised"} =>
            \A m \in (n + 1)..Len(log) : m \notin Escapes /\ m \notin Counts
        /\ \A n \in Escapes : log[n].res = "raised" =>
            \A m \in (n + 1)..Len(log) : m \notin Escapes /\ m \notin Counts

\* four rounds each found a dialog and sent Escape
C18_Witness ==
    /\ InDismiss
    /\ Cardinality(Escapes) = DismissRounds
    /\ pc = "RestoreScroll"

\* --------------------------------------------- claims on BrowserManager

Launches(key) ==
    {n \in 1..Len(calls) : calls[n].fn = "launch_persistent_context" /\ calls[n].key = key}
LaunchesDone(key) == {n \in Launches(key) : calls[n].done}
\* the close_context calls for a key that have begun
Closes(key) == {n \in 1..Len(calls) : calls[n].fn = "close_context" /\ calls[n].key = key}
Creators(key) == {n \in LaunchesDone(key) : calls[n].created}

\* between the first launch of a key and its close_context: every returned launch
\* returned the context stored for the key, and only one of them created it
C19_State ==
    \A key \in MgrKeys :
        (Closes(key) = {} /\ LaunchesDone(key) # {}) =>
            /\ key \in DOMAIN browsers
            /\ \A n \in LaunchesDone(key) : calls[n].ret = browsers[key].ctx
            /\ Cardinality(Creators(key)) = 1
            /\ browsers[key].ctx \notin closed

\* a launch that finds its key in the map returns at once with the stored
\* context and leaves the map, the driver and the context count as they are
C19_Step ==
    \A t \in Threads :
        (/\ thr[t].at = "check"
         /\ thr[t].key \in DOMAIN browsers
         /\ thr'[t] # thr[t]) =>
            /\ thr'[t] = Idle
            /\ calls'[thr[t].call].done
            /\ calls'[thr[t].call].ret = browsers[thr[t].key].ctx
            /\ ~calls'[thr[t].call].created
            /\ UNCHANGED <<browsers, play, nctx, closed>>

\* C19: a launch_persistent_context call for a key that is already open returns
\* the very context stored for that key and creates no new browser context, for
\* any number of repeated calls between the first launch and the key's
\* close_context.
C19_OpenKeyReturnsStoredContext == [](C19_State) /\ [][C19_Step]_vars

\* three launches of one key, one after the other: one creation, one context
C19_Witness ==
    /\ Len(calls) = MaxMgrCalls
    /\ \E key \in MgrKeys :
        /\ LaunchesDone(key) = 1..MaxMgrCalls
        /\ \A n \in 1..MaxMgrCalls : calls[n].during = {} /\ calls[n].ret = browsers[key].ctx
        /\ Creators(key) = {1}
    /\ nctx = 1

\* the threads inside a with self._lock block
Inside == {t \in Threads : thr[t].at \in {"check", "create", "insert", "pop", "stop"}}

\* the lock holder is the only thread inside; a key never has two contexts, stored
\* or about to be stored; launches of one key that overlap in time receive the
\* same context, created once
C20_State ==
    /\ Inside \subseteq {lock}
    /\ \A key \in MgrKeys :
        Cardinality({t \in Threads : thr[t].at = "insert" /\ thr[t].key = key})
        + (IF key \in DOMAIN browsers THEN 1 ELSE 0) <= 1
    /\ \A key \in MgrKeys : \A n, m \in LaunchesDone(key) :
        (Closes(key) = {} /\ n \in calls[m].during) =>
            /\ calls[n].thread # calls[m].thread
            /\ calls[n].ret = calls[m].ret
            /\ ~(calls[n].created /\ calls[m].created)
            /\ Cardinality(Creators(key)) = 1

\* the session map and the driver change only in a step of the lock holder
C20_Step ==
    (browsers' # browsers \/ play' # play) =>
        /\ lock \in Threads
        /\ thr[lock].at \in {"create", "insert", "pop", "stop"}
        /\ thr'[lock] # thr[lock]
        /\ \A t \in Threads \ {lock} : thr'[t] = thr[t]

\* C20: two threads that call launch_persistent_context concurrently with the same
\* key cause exactly one context creation and both receive that context; the
\* check for an existing entry and the insertion of the new one are never
\* interleaved with another thread's access to the session map.
C20_ConcurrentLaunchCreatesOnce == [](C20_State) /\ [][C20_Step]_vars

\* two threads launched the same key at the same time and both have returned
C20_Witness ==
    \E key \in MgrKeys :
        /\ LaunchesDone(key) = {1, 2}
        /\ calls[2].during = {1}
        /\ calls[1].thread # calls[2].thread
        /\ calls[1].ret = calls[2].ret
        /\ nctx = 1
        /\ Closes(key) = {}

\* --------------------------------------- claims on runs in one process

\* the contexts created for a key: returned by a launch that created one, or
\* about to be stored by a launch that is still running
CreatedFor(key) ==
    {calls[n].ret : n \in {m \in Launches(key) : calls[m].done /\ calls[m].created}}
    \cup {thr[t].ctx : t \in {u \in Threads : thr[u].at = "insert" /\ thr[u].key = key}}
\* the contexts of a key that are open
Live(key) == CreatedFor(key) \ closed

\* C21: at every moment at most one live browser context exists per account key,
\* for any sequence of create_product runs in the process, also when the runs are
\* started from several EtsyFunc objects constructed for the same shop key.
C21_OneLiveContextPerKey ==
    \A key \in MgrKeys : Cardinality(Live(key)) <= 1

\* two EtsyFunc objects of one shop key, each manager holding an open context
C21_Witness ==
    /\ others # <<>>
    /\ others[1].shop_key = shop_key
    /\ shop_key \in DOMAIN browsers
    /\ shop_key \in DOMAIN others[1].browsers
    /\ browsers[shop_key].ctx # others[1].browsers[shop_key].ctx
    /\ {browsers[shop_key].ctx, others[1].browsers[shop_key].ctx} \cap closed = {}
    /\ \A t \in Threads : job[t].fn = "idle"

\* ------------------------------------- claims on BrowserManager, continued

\* the keys in the map have pairwise distinct contexts, all open, and no
\* close_context call has ended with an exception
C22_State ==
    /\ \A k1, k2 \in DOMAIN browsers : k1 # k2 => browsers[k1].ctx # browsers[k2].ctx
    /\ \A k \in DOMAIN browsers : browsers[k].ctx \notin closed
    /\ \A n \in 1..Len(calls) : calls[n].fn = "close_context" => ~calls[n].raised

\* the steps of close_context(key): the pop removes the key and closes its
\* context, and nothing else; on a key that is not open it changes nothing; the
\* rest of the call touches neither the map nor a context, and the call returns
C22_Step ==
    \A t \in Threads :
        (thr[t].op = "close_context" /\ thr'[t] # thr[t]) =>
            LET key == thr[t].key
            IN /\ thr[t].at = "pop" =>
                    /\ thr'[t].at = "stop"
                    /\ DOMAIN browsers' = DOMAIN browsers \ {key}
                    /\ \A k \in DOMAIN browsers' : browsers'[k] = browsers[k]
                    /\ closed' = IF key \in DOMAIN browsers
                                 THEN closed \cup {browsers[key].ctx} ELSE closed
                    /\ key \notin DOMAIN browsers => UNCHANGED <<browsers, closed>>
               /\ thr[t].at = "stop" =>
                    /\ UNCHANGED <<browsers, closed>>
                    /\ thr'[t] = Idle
                    /\ calls'[thr[t].call].done
                    /\ ~calls'[thr[t].call].raised

\* C22: launching two different keys on one BrowserManager yields two distinct
\* contexts; close_context for one key closes and removes only that key's context,
\* every other key stays in the map with its context open; close_context for a key
\* that is not open changes no session and raises nothing.
C22_CloseOnlyThatKey == [](C22_State) /\ [][C22_Step]_vars

\* two keys were launched and one of them closed: the other is still open
C22_Witness ==
    /\ Len(calls) = 3
    /\ \A n \in 1..3 : calls[n].done
    /\ calls[1].fn = "launch_persistent_context"
    /\ calls[2].fn = "launch_persistent_context"
    /\ calls[1].key # calls[2].key
    /\ calls[1].ret # calls[2].ret
    /\ calls[3].fn = "close_context" /\ calls[3].key = calls[1].key
    /\ DOMAIN browsers = {calls[2].key}
    /\ browsers[calls[2].key].ctx = calls[2].ret
    /\ closed = {calls[1].ret}

\* while a key is in the map the driver runs, and it is the driver stored with
\* every key
C23_State ==
    \A k \in DOMAIN browsers : play # NoDriver /\ browsers[k].play = play

\* the last step of close_context(key): the key is out of the map and its context
\* closed; a running driver is stopped by this step if the map is empty and left
\* running otherwise; no other step stops the driver
C23_Step ==
    /\ \A t \in Threads :
        (thr[t].op = "close_context" /\ thr[t].at = "stop" /\ thr'[t] # thr[t]) =>
            /\ thr[t].key \notin DOMAIN browsers'
            /\ thr[t].ctx # 0 => thr[t].ctx \in closed'
            /\ browsers' = browsers
            /\ (play' = NoDriver) <=> (DOMAIN browsers' = {})
            /\ DOMAIN browsers' # {} => play' = play
            /\ calls'[thr[t].call].done
    /\ (play # NoDriver /\ play' = NoDriver) =>
        /\ DOMAIN browsers' = {}
        /\ \E t \in Threads :
            thr[t].op = "close_context" /\ thr[t].at = "stop" /\ thr'[t] = Idle

\* C23: close_context(k) removes k from the session map and closes its context;
\* the automation driver is stopped by that call exactly when the session map is
\* empty afterwards, and is never stopped while another key's session is open.
C23_DriverStoppedWithLastSession == [](C23_State) /\ [][C23_Step]_vars

\* the only open key was closed: the map is empty and the driver stopped
C23_Witness ==
    /\ Len(calls) = 2
    /\ calls[1].fn = "launch_persistent_context" /\ calls[1].done /\ calls[1].created
    /\ calls[2].fn = "close_context" /\ calls[2].done /\ calls[2].key = calls[1].key
    /\ calls[2].during = {}
    /\ browsers = <<>>
    /\ closed = {calls[1].ret}
    /\ ndrivers = 1
    /\ play = NoDriver

\* the threads whose create_product run holds a page of context c and drives it
Driving(c) ==
    {t \in Threads : job[t].fn = "create_product" /\ job[t].at = "steps" /\ job[t].ctx = c}

\* C24: a browser context is used by at most one workflow execution at a time:
\* two create_product runs for the same account key never hold and drive the same
\* context concurrently, and no run closes a context that another run is still
\* using.
C24_ContextExclusivelyOwned ==
    \A c \in 1..nctx :
        /\ Cardinality(Driving(c)) <= 1
        /\ c \in closed => Driving(c) = {}

\* a run that finished has closed the context that the run of another thread
\* is still driving
C24_Witness ==
    \E n \in RunCalls, t \in Threads :
        /\ calls[n].done /\ ~calls[n].raised
        /\ calls[n].thread # t
        /\ t \in Driving(calls[n].ret)
        /\ calls[n].ret \in closed
        /\ calls[job[t].call].obj = calls[n].obj

\* the launch_persistent_context call that the create_product call n makes first
LaunchOf(n) == calls[n + 1]
\* the create_product calls on object o whose launch has returned
Launched(o) == {n \in RunCalls : calls[n].obj = o /\ LaunchOf(n).done}
\* the close_context calls begun on the manager of object o
ClosesOn(o) == {n \in 1..Len(calls) : calls[n].fn = "close_context" /\ calls[n].obj = o}

\* C25: a session created for an account key on its first use is reused by every
\* later workflow invocation for that key: a second create_product run on the same
\* EtsyFunc creates no new browser context (no caller closes the session and the
\* process does not shut down here).
C25_LaterRunsCreateNoContext ==
    \A o \in 1..MaxObjects :
        Cardinality({n \in Launched(o) : LaunchOf(n).created}) <= 1

\* on one EtsyFunc: contexts are created at most once more than they were closed;
\* a run that began after another run had completed (and so closed the context
\* of the key) does not get that context
C25_State ==
    /\ \A o \in 1..MaxObjects :
        Cardinality({n \in Launched(o) : LaunchOf(n).created})
            <= 1 + Cardinality({c \in ClosesOn(o) : calls[c].done /\ calls[c].ret # 0})
    /\ \A n, m \in RunCalls :
        (/\ calls[n].obj = calls[m].obj
         /\ n < m /\ n \notin calls[m].during
         /\ calls[n].done /\ ~calls[n].raised
         /\ LaunchOf(m).done) =>
            /\ LaunchOf(m).ret # LaunchOf(n).ret
            /\ LaunchOf(n).ret \in closed

\* the launch of a run returns: when an earlier run on the same EtsyFunc was given
\* a context and no run on it has got as far as close_context, the launch
\* returns that context and creates none
C25_Step ==
    \A t \in Threads :
        (/\ job[t].fn = "create_product" /\ job[t].at = "launch"
         /\ thr[t].at # "idle" /\ thr'[t] = Idle) =>
            LET m == job[t].call
                o == calls[m].obj
            IN (ClosesOn(o) = {} /\ Launched(o) # {}) =>
                /\ ~calls'[m + 1].created
                /\ \A n \in Launched(o) : calls'[m + 1].ret = LaunchOf(n).ret
                /\ UNCHANGED <<nctx, browsers>>

\* C25 as amended: the session of a key is reused by the later create_product runs
\* on the same EtsyFunc until a run completes; a run that passes all its steps
\* closes the context of its key, and a run begun after that gets another context.
C25_ReusedUntilARunCompletes == [](C25_State) /\ [][C25_Step]_vars

\* the first run aborted and left its context open; the second run on the same
\* EtsyFunc was given that context
C25_Witness ==
    /\ Len(calls) >= 4
    /\ calls[1].fn = "create_product" /\ calls[1].done /\ calls[1].raised
    /\ calls[3].fn = "create_product" /\ calls[3].obj = calls[1].obj
    /\ calls[3].during = {}
    /\ LaunchOf(1).created
    /\ LaunchOf(3).done /\ ~LaunchOf(3).created
    /\ LaunchOf(3).ret = LaunchOf(1).ret
    /\ nctx = 1

\* ------------------------------------------ claims on the run, continued

\* the steps that have a failure branch
FailingSteps == NamedSteps \cup {"AboutModal"}

\* one tag for each step; for AboutWhenMade the tag of the failed selection
StepTag(step) ==
    CASE step = "CategorySearch" -> "category_input_error"
      [] step = "CategorySelectFirstSuggestion" -> "category_select_error"
      [] step = "ConfirmCategory" -> "category_continue_error"
      [] step = "AboutModal" -> "about_modal_not_visible"
      [] step = "AboutWhoMade" -> "about_who_made_error"
      [] step = "AboutWhatIsIt" -> "about_what_is_it_error"
      [] step = "AboutWhenMade" -> "about_when_made_option_error"
      [] step = "AboutContinue" -> "about_continue_error"
      [] step = "TitleFill" -> "title_fill_error"
      [] step = "PhotoUpload" -> "photo_upload_error"
      [] step = "DescriptionFill" -> "description_fill_error"

\* the tag of the failure branch of a step: AboutWhenMade has one for the dropdown
\* that could not be opened and one for the option that could not be selected
BranchTag(step, pth) ==
    IF step = "AboutWhenMade" /\ pth = "open" THEN "about_when_made_dropdown_error"
    ELSE StepTag(step)

\* C26: every workflow run that aborts on a step failure writes exactly one
\* failure artifact, whose path is a function of the shop key and the failing
\* step only: the same key and step always give the same path, and two different
\* failing steps never give the same path.
C26_ArtifactPathByKeyAndStep ==
    pc = "Aborted" =>
        \E s \in Failed :
            /\ DiagnosticShots = <<ShotPath(shop_key, StepTag(s))>>
            /\ \A s2 \in FailingSteps \ {s} :
                ShotPath(shop_key, StepTag(s2)) # ShotPath(shop_key, StepTag(s))

\* C26 as amended: the path is a function of the shop key and the tag of the
\* failure branch: one tag per step, two for AboutWhenMade; the run wrote exactly
\* one such file, and no failure branch of another step writes that path.
C26_ArtifactPathByKeyAndBranch ==
    pc = "Aborted" =>
        \E s \in Failed :
            /\ Failed = {s}
            /\ s \in FailingSteps
            /\ DiagnosticShots = <<ShotPath(shop_key, BranchTag(s, path))>>
            /\ BranchTag(s, path) \in FailureTags(s)
            /\ \A s2 \in FailingSteps \ {s} : \A pth \in {"open", "listbox", "strategies"} :
                ShotPath(shop_key, BranchTag(s2, pth)) # ShotPath(shop_key, BranchTag(s, path))
            /\ \A n \in 1..Len(shots) :
                shots[n] \in {ShotPath(shop_key, BranchTag(s, path)),
                              ShotPath(shop_key, "after_category")}

\* the dropdown of AboutWhenMade could not be opened: the artifact of that branch
C26_Witness ==
    /\ pc = "Aborted"
    /\ Failed = {"AboutWhenMade"}
    /\ path = "open"
    /\ DiagnosticShots = <<ShotPath(shop_key, "about_when_made_dropdown_error")>>
    /\ shots = <<ShotPath(shop_key, "after_category"),
                 ShotPath(shop_key, "about_when_made_dropdown_error")>>

\* the calls that put input into the page
InputActs == {"fill", "click", "check", "press", "set_input_files"}
\* the input calls of the log that were sent to the page and did not raise
InputsSent == {n \in 1..Len(log) : log[n].act \in InputActs /\ log[n].res # "raised"}
\* the calls of the strategy attempt that call n of the log belongs to
AttemptOf(n) ==
    {m \in 1..Len(log) : log[m].path = log[n].path /\ log[m].iter = log[n].iter
                         /\ log[m].strat = log[n].strat}

\* C27: within a step, a strategy attempt that fails issues no UI-mutating action:
\* the UI input actions of a step (fills, clicks, key presses) come only from the
\* strategy that succeeds, for every step including ConfirmCategory and
\* AboutContinue.
C27_InputOnlyFromWinningStrategy ==
    \A n \in InputsSent : \A m \in AttemptOf(n) : log[m].res # "raised"

\* the first click on Continue in the about modal raised, Enter was pressed, and
\* the second locator was then clicked: the step succeeded
C27_Witness ==
    /\ Has("AboutContinue", "ok")
    /\ Len(log) = 3
    /\ log[1].step = "AboutContinue"
    /\ log[1].act = "click" /\ log[1].res = "raised"
    /\ log[2].act = "press" /\ log[2].arg = <<"Enter">> /\ log[2].strat = log[1].strat
    /\ log[3].act = "click" /\ log[3].res = "ok" /\ log[3].strat = 2

Terminated == pc \in {"Done", "Aborted"}

\* the outcome of the run: none while it runs; at Done success, no step failed and
\* the last event is the end of the last step; at Aborted the failure of one step,
\* the last event of the run, every step begun before it having succeeded
C28_State ==
    /\ ~Terminated => (error = NoError /\ Failed = {})
    /\ pc = "Done" =>
        /\ error = NoError
        /\ Failed = {}
        /\ trace[Len(trace)] = Ev("Done", "begin")
        /\ \A n \in 1..Len(BegunSteps) : Has(BegunSteps[n], "ok")
    /\ pc = "Aborted" =>
        /\ error # NoError
        /\ Cardinality(Failed) = 1
        /\ \A s \in Failed :
            /\ trace[Len(trace)] = Ev(s, "fail")
            /\ \A n \in 1..(Len(trace) - 1) : trace[n][2] # "fail"
            /\ \A n \in 1..Len(BegunSteps) : BegunSteps[n] # s => Has(BegunSteps[n], "ok")
        /\ ~Has("Done", "begin")

\* a run that has ended takes no further step
C28_Step == Terminated => UNCHANGED vars

\* C28: assuming every individual UI action returns or raises, each create_product
\* invocation terminates with exactly one terminal outcome: success after the last
\* step, or the failure of the first failing step; it never reports both and never
\* reports the failure of a step later than the first failing one.
C28_TerminatesWithOneOutcome == <>Terminated /\ [](C28_State) /\ [][C28_Step]_vars

\* the last step failed after all steps before it succeeded: the outcome of the
\* run is that failure
C28_Witness ==
    /\ pc = "Aborted"
    /\ Failed = {"DescriptionFill"}
    /\ Has("PhotoUpload", "ok")
    /\ error = RuntimeError("Description field not found/fillable.")
    /\ ~Has("Done", "begin")

\* ------------------------------------------ claims on ensure_manual_login

Logins == {n \in 1..Len(calls) : calls[n].fn = "ensure_manual_login"}
\* every close_context call for the key of login call n had returned when the
\* login call began
NoCloseSince(n) ==
    \A c \in Closes(calls[n].key) : c < n /\ c \notin calls[n].during

\* a login call that has returned: its launch had returned the context of the key,
\* a page of it went to the login URL, the line on the standard input had arrived,
\* and the page was closed; unless close_context was called for the key in the
\* meantime, the key is in the map with that context, which is open
C29_State ==
    \A n \in Logins :
        (calls[n].done /\ ~calls[n].raised) =>
            /\ LaunchOf(n).done
            /\ calls[n].ret = LaunchOf(n).ret
            /\ calls[n].url = LOGIN_URL
            /\ calls[n].signal
            /\ calls[n].page = "closed"
            /\ NoCloseSince(n) =>
                /\ calls[n].key \in DOMAIN browsers
                /\ browsers[calls[n].key].ctx = calls[n].ret
                /\ calls[n].ret \notin closed

\* the steps of ensure_manual_login after its launch leave the session map, the
\* driver and every context as they are; the method returns only from behind
\* input(), after the line has arrived
C29_Step ==
    \A t \in Threads :
        (job[t].fn = "ensure_manual_login" /\ job'[t] # job[t]) =>
            /\ UNCHANGED <<browsers, play, nctx, closed>>
            /\ (job'[t] = NoJob /\ ~calls'[job[t].call].raised) =>
                /\ job[t].at = "close"
                /\ calls[job[t].call].signal
                /\ calls'[job[t].call].page = "closed"

\* C29: ensure_manual_login opens (or reuses) the session for the key, navigates a
\* page to the login URL, and does not return before the external human-completion
\* signal is received; when it returns, only the helper page has been closed and
\* the key's session is still open and registered in the manager.
C29_ManualLoginKeepsSession == [](C29_State) /\ [][C29_Step]_vars

\* a login call on a key that was open reused its context and has returned
C29_Witness ==
    \E n \in Logins :
        /\ calls[n].done /\ ~calls[n].raised
        /\ ~LaunchOf(n).created
        /\ calls[n].signal
        /\ calls[n].page = "closed"
        /\ calls[n].key \in DOMAIN browsers
        /\ browsers[calls[n].key].ctx = calls[n].ret
        /\ calls[n].ret \notin closed

\* nothing of a step exists in the history of the run: no begin, success or
\* failure, no path outcome, no UI call, none of its failure screenshots
Untouched(step) ==
    /\ pc # step
    /\ \A what \in {"begin", "ok", "fail"} : ~Has(step, what)
    /\ \A n \in 1..Len(log) : log[n].step # step
    /\ \A n \in 1..Len(paths) : paths[n].step # step
    /\ \A n \in 1..Len(shots) :
        shots[n] \notin {ShotPath(shop_key, t) : t \in FailureTags(step)}

\* C30: TitleFill is skipped without failure when the input has no title, and
\* DescriptionFill is skipped without failure when the input has no description:
\* no fill strategy for the absent field is attempted and no diagnostic capture is
\* taken for it; the run goes on with the next block.
C30_AbsentTitleDescriptionSkipped ==
    /\ ~Truthy(product.title) =>
        /\ Untouched("TitleFill")
        /\ Has("RestoreScroll", "ok") =>
            /\ After("RestoreScroll", "ok", 1) = Ev("TitleFill", "skip")
            /\ After("RestoreScroll", "ok", 2)[2] \in {"begin", "skip"}
    /\ ~Truthy(product.description) =>
        /\ Untouched("DescriptionFill")
        /\ Has("ScrollToBottom", "begin") =>
            trace[At("ScrollToBottom", "begin") - 1] = Ev("DescriptionFill", "skip")
        /\ (Has("PhotoUpload", "ok") \/ Has("PhotoUpload", "skip")) =>
            Has("ScrollToBottom", "begin")

\* a product without title was created to the end: the title was skipped, the
\* photos uploaded and the description filled
C30_Witness ==
    /\ product.title = None
    /\ pc = "Done"
    /\ Has("TitleFill", "skip")
    /\ Has("PhotoUpload", "ok")
    /\ Has("DescriptionFill", "ok")
    /\ shots = <<ShotPath(shop_key, "after_category"), ShotPath(shop_key, "after_about")>>


\* thread t has called close_all and the call has not returned
InCloseAll(t) == job[t].fn = "close_all"

\* C31: close_all, called on a BrowserManager with any number of open sessions
\* (including at least one), terminates, and afterwards the session map is empty,
\* every context that was open is closed, and the automation driver is stopped.
C31_CloseAllTerminatesAndClosesAll ==
    /\ \A t \in Threads : InCloseAll(t) ~> ~InCloseAll(t)
    /\ [][\A t \in Threads :
            (InCloseAll(t) /\ ~InCloseAll(t)') =>
                /\ browsers' = <<>>
                /\ play' = NoDriver
                /\ \A c \in 1..nctx : c \in closed']_vars

\* a thread is inside close_all on a manager with an open session: it holds the
\* lock and waits for it in close_context
C31_Witness ==
    \E t \in Threads :
        /\ InCloseAll(t)
        /\ job[t].at = "loop"
        /\ thr[t].op = "close_context"
        /\ thr[t].at = "acquire"
        /\ lock = t
        /\ thr[t].key \in DOMAIN browsers


\* C32: create_product releases its shop key's session (close_context) exactly
\* when the run reaches the end without a step failure; after a run that aborts
\* on a step failure the key is still in the manager's session map with its
\* context open.
C32_SessionReleasedOnlyOnSuccess ==
    /\ pc = "Done" =>
        /\ error = NoError
        /\ \A n \in 1..Len(trace) : trace[n][2] # "fail"
        /\ shop_key \notin DOMAIN browsers
        /\ closed = 1..nctx
        /\ nctx = 1
    /\ pc # "Done" =>
        /\ closed = {}
        /\ pc # "Open" =>
            /\ shop_key \in DOMAIN browsers
            /\ browsers[shop_key].ctx \notin closed
    /\ pc = "Aborted" =>
        /\ error # NoError
        /\ shop_key \in DOMAIN browsers
        /\ browsers[shop_key].ctx \notin closed
        /\ play # NoDriver

\* a run aborted late, in the description: the session of its key is in the map
\* and no context has been closed
C32_Witness ==
    /\ pc = "Aborted"
    /\ Has("DescriptionFill", "fail")
    /\ shop_key \in DOMAIN browsers
    /\ browsers[shop_key].ctx = 1
    /\ closed = {}


\* in every state: a non-empty map has a running driver, which is the driver of
\* every entry and the latest one started
C33_State ==
    /\ DOMAIN browsers # {} => play # NoDriver
    /\ \A k \in DOMAIN browsers : browsers[k].play = play
    /\ play # NoDriver => play = ndrivers

\* in every step: a close_context that returns with the map empty leaves no
\* driver reference; a driver appears only where there was none, and is a new one
C33_Step ==
    /\ \A t \in Threads :
        (thr[t].op = "close_context" /\ thr[t].at = "stop" /\ thr'[t].at = "idle"
            /\ DOMAIN browsers' = {}) => play' = NoDriver
    /\ (play' # play /\ play' # NoDriver) =>
        /\ play = NoDriver
        /\ play' = ndrivers + 1
        /\ ndrivers' = ndrivers + 1
    /\ (play' # play /\ play' = NoDriver) => DOMAIN browsers' = {}

\* C33: in every reachable state of a BrowserManager, a non-empty session map
\* implies the automation driver is started, and every entry of the map refers to
\* the currently running driver instance; after the map becomes empty through
\* close_context the driver reference is cleared, and the next launch starts a
\* new driver.
C33_DriverMatchesSessions == [](C33_State) /\ [][C33_Step]_vars

\* the map was emptied by close_context and a later launch started the second
\* driver, to which the entry of the key refers
C33_Witness ==
    /\ Len(calls) = 3
    /\ calls[2].fn = "close_context" /\ calls[2].done /\ calls[2].ret = 1
    /\ calls[3].fn = "launch_persistent_context" /\ calls[3].done /\ calls[3].created
    /\ play = 2
    /\ \E k \in DOMAIN browsers : browsers[k] = [play |-> 2, ctx |-> 2]


\* call m was over when call n began
Before(m, n) == m < n /\ m \notin calls[n].during

\* the launches of key k that returned a context
LaunchesReturned(k) ==
    {n \in 1..Len(calls) : /\ calls[n].fn = "launch_persistent_context"
                           /\ calls[n].key = k
                           /\ calls[n].done
                           /\ ~calls[n].raised}

\* in every state: no entry of the map holds a closed context; a launch of k that
\* began after a close_context(k) was over returned a context younger than the
\* one closed, and created it unless another launch of k ran in between or beside
C34_State ==
    /\ \A k \in DOMAIN browsers : browsers[k].ctx \notin closed
    /\ \A m \in 1..Len(calls) : \A n \in LaunchesReturned(calls[m].key) :
        (calls[m].fn = "close_context" /\ calls[m].done /\ Before(m, n)) =>
            /\ calls[n].ret > calls[m].ret
            /\ (\A p \in Launches(calls[m].key) \ {n} : Before(p, m) \/ Before(n, p))
                => calls[n].created

\* in every step: the context a launch returns is not closed at the return
C34_Step ==
    \A t \in Threads :
        (/\ thr[t].op = "launch_persistent_context"
         /\ thr'[t].at = "idle"
         /\ ~calls'[thr[t].call].raised)
        => /\ calls'[thr[t].call].ret \in 1..nctx'
           /\ calls'[thr[t].call].ret \notin closed'

\* C34: after close_context(k), the next launch_persistent_context(k) on the same
\* manager creates a new browser context; the manager never returns a context
\* that it has closed through close_context.
C34_ClosedContextNeverReturned == [](C34_State) /\ [][C34_Step]_vars

\* launch, close and launch again of one key, one after the other: the second
\* launch created the second context, the first is closed
C34_Witness ==
    /\ Len(calls) = 3
    /\ \E k \in MgrKeys : \A n \in 1..3 : calls[n].key = k /\ calls[n].done
    /\ Before(1, 2) /\ Before(2, 3)
    /\ calls[1].fn = "launch_persistent_context" /\ calls[1].ret = 1
    /\ calls[2].fn = "close_context" /\ calls[2].ret = 1
    /\ calls[3].fn = "launch_persistent_context" /\ calls[3].created /\ calls[3].ret = 2
    /\ closed = {1}


\* the launches that ended with the exception of a failed creation
FailedLaunches ==
    {n \in 1..Len(calls) : calls[n].fn = "launch_persistent_context" /\ calls[n].raised}

\* in every state: a launch that failed is over, returned no context and created
\* none; the lock is held only by a thread inside a with block, so a thread
\* waiting for it waits for a call that is running
C35_State ==
    /\ \A n \in FailedLaunches :
        calls[n].done /\ calls[n].ret = 0 /\ ~calls[n].created
    /\ \A k \in DOMAIN browsers : \E n \in Creators(k) : calls[n].ret = browsers[k].ctx
    /\ DOMAIN cfg = DOMAIN shops
    /\ \A k \in DOMAIN shops : Creators(k) # {}
    /\ lock # NoThread => thr[lock].at \in {"check", "create", "insert", "pop", "stop"}
    /\ \A t \in Threads : thr[t].at \in {"check", "create", "insert", "pop", "stop"} => lock = t

\* in every step: when the creation raises, the map, the registry and the file
\* stay as they were, no context is counted, the exception is the result of the
\* call and the lock is free
C35_Step ==
    \A t \in Threads :
        (thr[t].at = "create" /\ thr'[t].at = "idle") =>
            /\ browsers' = browsers
            /\ thr[t].key \notin DOMAIN browsers'
            /\ shops' = shops
            /\ cfg' = cfg
            /\ nctx' = nctx
            /\ calls'[thr[t].call].raised
            /\ calls'[thr[t].call].done
            /\ lock = t
            /\ lock' = NoThread

\* C35: if creating the browser context raises inside launch_persistent_context,
\* the key is not added to the session map, no registry entry is written for it,
\* the exception reaches the caller, and the manager's lock is released so that
\* later launch_persistent_context and close_context calls do not block.
C35_FailedCreationLeavesNoTrace == [](C35_State) /\ [][C35_Step]_vars

\* the creation for a key raised, and a later launch of the key went through the
\* lock and created the first context
C35_Witness ==
    /\ Len(calls) >= 2
    /\ calls[1].fn = "launch_persistent_context" /\ calls[1].raised
    /\ calls[2].fn = "launch_persistent_context" /\ calls[2].key = calls[1].key
    /\ Before(1, 2)
    /\ calls[2].done /\ calls[2].created /\ calls[2].ret = 1
    /\ lock = NoThread


\* the launches, on any manager, that created a context
ContextLaunches ==
    {n \in 1..Len(calls) : /\ calls[n].fn = "launch_persistent_context"
                           /\ calls[n].done
                           /\ calls[n].created}

\* C36: after any interleaving of context launches performed through several
\* BrowserManager instances in one process (each EtsyFunc constructs its own),
\* the persisted shop registry shops.json contains an entry for every shop key for
\* which a context was launched, and the entry of a key already registered is not
\* changed by later launches of that key.
C36_RegistryKeepsEveryLaunchedKey ==
    /\ [](\A n \in ContextLaunches : calls[n].key \in DOMAIN cfg)
    /\ [][\A k \in DOMAIN cfg : k \in DOMAIN cfg' /\ cfg'[k] = cfg[k]]_vars

\* two objects, each constructed before the other launched: the first launched a
\* context for one key, the second for another, and the file holds only the key
\* of the launch that came last
C36_Witness ==
    /\ Len(others) = 1
    /\ \E m, n \in ContextLaunches :
        /\ Before(m, n)
        /\ calls[m].obj # calls[n].obj
        /\ calls[m].key # calls[n].key
        /\ DOMAIN cfg = {calls[n].key}
        /\ DOMAIN shops = {calls[n].key}
        /\ DOMAIN others[1].shops = {calls[m].key}


\* the clicks of ConfirmCategory in the log, by position
ContinueClicks ==
    {n \in 1..Len(log) : log[n].step = "ConfirmCategory" /\ log[n].act = "click"}

\* the clicks on the Continue button found by role, and those that raised
ButtonClicks == {n \in ContinueClicks : log[n].path = "loop"}
FailedClicks == {n \in ContinueClicks : log[n].res = "raised"}

\* C37: ConfirmCategory makes at most 8 click attempts on the Continue button,
\* tries the absolute-path fallback click only after all 8 attempts failed, makes
\* no further attempt after the first successful click, and on total failure
\* takes one diagnostic capture and propagates the failure.
C37_ConfirmCategoryBounded ==
    /\ Cardinality(ButtonClicks) <= ContinueAttempts
    /\ \A n \in ButtonClicks : log[n].strat = Cardinality({m \in ButtonClicks : m <= n})
    /\ \A n \in ContinueClicks :
        /\ n < Len(log) => log[n].res = "raised"
        /\ log[n].res = "ok" => (n = Len(log) /\ pc # "ConfirmCategory"
                                  /\ Has("ConfirmCategory", "ok"))
        /\ log[n].path = "fallback" =>
            /\ log = <<log[n]>>
            /\ log[n].loc = continue_xpath
            /\ paths[1] = [step |-> "ConfirmCategory", path |-> "loop", ok |-> FALSE]
    /\ (pc = "ConfirmCategory" /\ path = "loop") =>
        /\ i = Cardinality(ButtonClicks) + 1
        /\ i <= ContinueAttempts
        /\ FailedClicks = ButtonClicks
    /\ (pc = "ConfirmCategory" /\ path = "fallback") =>
        /\ Cardinality(ButtonClicks) = ContinueAttempts
        /\ FailedClicks = ButtonClicks
        /\ ContinueClicks = ButtonClicks
        /\ paths = <<[step |-> "ConfirmCategory", path |-> "loop", ok |-> FALSE]>>
    /\ Has("ConfirmCategory", "fail") =>
        /\ pc = "Aborted"
        /\ error = PlaywrightError("click", continue_xpath)
        /\ shots = <<ShotPath(shop_key, "category_continue_error")>>
        /\ log = <<[step |-> "ConfirmCategory", path |-> "fallback", iter |-> <<1, 1>>,
                    strat |-> 1, loc |-> continue_xpath, act |-> "click", arg |-> <<>>,
                    res |-> "raised"]>>
        /\ paths = <<[step |-> "ConfirmCategory", path |-> "loop", ok |-> FALSE],
                     [step |-> "ConfirmCategory", path |-> "fallback", ok |-> FALSE]>>

\* the eight clicks on the button have failed and the fallback is about to be
\* tried
C37_Witness ==
    /\ pc = "ConfirmCategory"
    /\ path = "fallback"
    /\ Cardinality(FailedClicks) = 8
    /\ Len(log) = 16
    /\ shots = <<>>


\* the calls of CategorySelectFirstSuggestion in the log: the presses of the
\* keyboard selection, the clicks on the candidates
SelectPresses ==
    {n \in 1..Len(log) : /\ log[n].step = "CategorySelectFirstSuggestion"
                         /\ log[n].act = "press"}
SelectClicks ==
    {n \in 1..Len(log) : /\ log[n].step = "CategorySelectFirstSuggestion"
                         /\ log[n].act = "click"}

\* the keyboard selection as the log shows it: the wait, ArrowDown and, if that
\* returned, Enter
KeyboardSelection ==
    /\ Len(log) \in {2, 3}
    /\ \A n \in 1..Len(log) : log[n].path = "keyboard"
    /\ log[1].act = "wait_for_selector"
    /\ log[2].act = "press" /\ log[2].arg = <<"ArrowDown">>
    /\ Len(log) = 3 => (log[2].res = "ok" /\ log[3].act = "press" /\ log[3].arg = <<"Enter">>)
    /\ Len(log) = 2 => log[2].res = "raised"

\* C38: CategorySelectFirstSuggestion tries the keyboard selection (ArrowDown then
\* Enter) first and attempts the click candidates, in their listed order, only if
\* the keyboard selection raised; the step fails with one diagnostic capture only
\* if the keyboard selection and all click candidates failed.
C38_KeyboardFirstThenClicks ==
    /\ SelectPresses # {} =>
        /\ KeyboardSelection
        /\ SelectClicks = {}
        /\ log[Len(log)].res = "ok" <=> Has("CategorySelectFirstSuggestion", "ok")
        /\ log[Len(log)].res = "raised" <=>
            (pc = "CategorySelectFirstSuggestion" /\ path = "click" /\ i = 1)
    /\ (pc = "CategorySelectFirstSuggestion" /\ path = "keyboard") =>
        /\ SelectPresses = {}
        /\ SelectClicks = {}
        /\ \A n \in 1..Len(paths) : paths[n].step # pc
    /\ (pc = "CategorySelectFirstSuggestion" /\ path = "click") =>
        /\ paths = <<[step |-> pc, path |-> "keyboard", ok |-> FALSE]>>
        /\ i = 1 => (SelectPresses # {} /\ log[Len(log)].res = "raised")
        /\ i > 1 => SelectClicks = 1..(i - 1)
    /\ SelectClicks # {} =>
        /\ SelectClicks = 1..Len(log)
        /\ Len(log) <= Len(click_candidates)
        /\ \A n \in SelectClicks :
            /\ log[n].path = "click"
            /\ log[n].strat = n
            /\ log[n].loc = click_candidates[n]
            /\ n < Len(log) => log[n].res = "raised"
            /\ log[n].res = "ok" => Has("CategorySelectFirstSuggestion", "ok")
        /\ paths[1] = [step |-> "CategorySelectFirstSuggestion", path |-> "keyboard",
                       ok |-> FALSE]
    /\ Has("CategorySelectFirstSuggestion", "fail") =>
        /\ pc = "Aborted"
        /\ error = RuntimeError("Could not select the first category suggestion.")
        /\ shots = <<ShotPath(shop_key, "category_select_error")>>
        /\ SelectClicks = 1..Len(click_candidates)
        /\ \A n \in SelectClicks : log[n].res = "raised"
        /\ paths = <<[step |-> "CategorySelectFirstSuggestion", path |-> "keyboard",
                      ok |-> FALSE],
                     [step |-> "CategorySelectFirstSuggestion", path |-> "click",
                      ok |-> FALSE]>>

\* Enter raised in the keyboard selection, the first click candidate raised and
\* the second one selected the suggestion
C38_Witness ==
    /\ pc = "ConfirmCategory"
    /\ SelectClicks = {1, 2}
    /\ log[1].res = "raised"
    /\ log[2].res = "ok"
    /\ log[2].loc = click_candidates[2]
    /\ paths = <<[step |-> "CategorySelectFirstSuggestion", path |-> "keyboard", ok |-> FALSE],
                 [step |-> "CategorySelectFirstSuggestion", path |-> "click", ok |-> TRUE]>>
    /\ shots = <<>>


\* the calls of a step in the log, and the label its radio candidates are for
CallsOf(step) == {n \in 1..Len(log) : log[n].step = step}
OnLabel(n, label) ==
    /\ log[n].strat \in 1..4
    /\ log[n].loc = radio_candidates(label)[log[n].strat]
    /\ log[n].act \in {"scroll_into_view_if_needed", "click", "check"}

\* the option of "What is it?" that goes with the input
SupplyOption == "A supply or tool to make things"
FinishedOption == "A finished product"
ExpectedOption == IF product.is_supply = "True" THEN SupplyOption ELSE FinishedOption

\* C39: AboutWhatIsIt is never skipped once the about modal is visible: it selects
\* the supply option exactly when is_supply is true and the finished-product
\* option when is_supply is false or absent, and the workflow aborts with that
\* step's diagnostic if the selection fails.
C39_WhatIsItAlwaysSelected ==
    /\ ~Has("AboutWhatIsIt", "skip")
    /\ Has("AboutModal", "ok") =>
        \/ Has("AboutWhatIsIt", "begin")
        \/ pc = "AboutWhoMade"
        \/ Has("AboutWhoMade", "fail")
    /\ \A n \in CallsOf("AboutWhatIsIt") : OnLabel(n, ExpectedOption)
    /\ (Has("AboutWhatIsIt", "ok") /\ CallsOf("AboutWhatIsIt") # {}) =>
        /\ log[Len(log)].act \in {"click", "check"}
        /\ log[Len(log)].res = "ok"
    /\ Has("AboutWhatIsIt", "ok") => ~Has("AboutWhatIsIt", "fail")
    /\ Has("AboutWhatIsIt", "fail") =>
        /\ pc = "Aborted"
        /\ error = RuntimeError("Failed to select 'What is it?' option: " \o ExpectedOption)
        /\ shots = <<ShotPath(shop_key, "after_category"),
                     ShotPath(shop_key, "about_what_is_it_error")>>
        /\ CallsOf("AboutWhatIsIt") # {}
        /\ log[Len(log)].strat = 4
        /\ log[Len(log)].res = "raised"

\* a product that is a supply: the supply option was selected by the label
\* candidate and the run went on
C39_Witness ==
    /\ product.is_supply = "True"
    /\ Has("AboutWhatIsIt", "ok")
    /\ CallsOf("AboutWhatIsIt") # {}
    /\ log[Len(log)].loc = "label=A supply or tool to make things"
    /\ log[Len(log)].act = "click"
    /\ log[Len(log)].res = "ok"

\* the values of who_made that have an option in the modal, with the option
WhoMadeOptions ==
    [i_did |-> "I did", someone_else |-> "Another company or person",
     collective |-> "A member of my shop"]

\* C40: AboutWhoMade performs a radio selection only when who_made is one of
\* i_did, someone_else, collective; when who_made is absent or any other value the
\* step is skipped without failure and without a diagnostic capture, and the
\* workflow continues with AboutWhatIsIt.
C40_WhoMadeOnlyForKnownValues ==
    /\ product.who_made \notin DOMAIN WhoMadeOptions =>
        /\ Untouched("AboutWhoMade")
        /\ Has("AboutModal", "ok") =>
            /\ After("AboutModal", "ok", 1) = Ev("AboutWhoMade", "skip")
            /\ After("AboutModal", "ok", 2) = Ev("AboutWhatIsIt", "begin")
    /\ product.who_made \in DOMAIN WhoMadeOptions =>
        /\ ~Has("AboutWhoMade", "skip")
        /\ Has("AboutModal", "ok") => After("AboutModal", "ok", 1) = Ev("AboutWhoMade", "begin")
        /\ \A n \in CallsOf("AboutWhoMade") : OnLabel(n, WhoMadeOptions[product.who_made])
        /\ Has("AboutWhoMade", "ok") =>
            After("AboutWhoMade", "ok", 1) = Ev("AboutWhatIsIt", "begin")

\* a product whose who_made is a value without option: nothing of AboutWhoMade
\* was done and the what-is-it option is being selected
C40_Witness ==
    /\ product.who_made = "gift"
    /\ Has("AboutWhoMade", "skip")
    /\ pc = "AboutWhatIsIt"
    /\ CallsOf("AboutWhatIsIt") # {}
    /\ shots = <<ShotPath(shop_key, "after_category")>>

=============================================================================
